---------------------------- MODULE Spec2Model ----------------------------
(***************************************************************************)
(* A model of bugyi.lib: the Result / LazyResult types (result.py) and the *)
(* error chain and report renderer (errors.py, io.py).                     *)
(*                                                                         *)
(* Strings are sequences of one-character strings, so that their length,   *)
(* slices and concatenation are what the code computes.                    *)
(***************************************************************************)
EXTENDS Integers, Sequences, FiniteSets, TLC

VARIABLES
    \* ---- result.py: one _LazyResult instance ----
    func,           \* self._func: the producer (how it behaves when invoked)
    args,           \* self._args
    lazy_result,    \* self._result: None until a producer call has been stored
    func_calls,     \* number of times self._func has been invoked so far
    log,            \* the accessor calls finished so far, with their outcomes
    pc,             \* per thread: position inside an accessor call
    acc,            \* per thread: the accessor being executed
    local,          \* per thread: the value returned by self._func, not yet stored
    \* ---- errors.py: the exceptions that exist and their cause links ----
    errors,         \* the exceptions created so far, by identity 1..Len(errors)
    last,           \* the last call made on the errors, with what it returned
    hung,           \* TRUE once a call has entered a loop that never ends
    it_pc,          \* BugyiError.__iter__: "idle", "loop" (suspended) or "done"
    it_e,           \* BugyiError.__iter__: the local variable e
    it_out,         \* BugyiError.__iter__: the errors yielded so far
    \* ---- errors.py: the _ErrorReport object made by the last report() ----
    report_of,      \* the error and the width report() was called with
    report_lines,   \* _ErrorReport.report_lines: records (line, newlines)
    nstr,           \* how many times str() was applied to that report object
    text,           \* what the last str() returned
    \* ---- result.py: one Ok or Err object, and the calls made on it ----
    res,            \* the Ok or Err object a client holds (None: no such object)
    res_out,        \* the last call made on it, or last bool(), and its outcome
    \* ---- cli.py / core.py: the main() made by main_factory ----
    main_calls,     \* how many times main() has been called
    main_in,        \* the last call: argv, what parse_cli_args and run do
    main_out,       \* the last call: what main() returned or raised, and logged
    \* ---- dates.py: parse_date and parse_daterange ----
    today,          \* dt.date.today(), as a proleptic Gregorian ordinal
    date_in,        \* the last parse_date call: its argument and the day it ran
    date_out,       \* the last parse_date call: what it returned or raised
    range_in,       \* the last parse_daterange call: its argument and the day
    range_out,      \* the last parse_daterange call: what it returned or raised
    \* ---- secrets.py / io.py: get_secret ----
    secret_in,      \* the last get_secret call: its arguments
    secret_cmd,     \* the last get_secret call: the command it ran, and its end
    secret_out,     \* the last get_secret call: what it returned or raised
    \* ---- xdg.py ----
    environ,        \* os.environ: each variable unset or its value
    xdg_HOME,       \* _HOME, once the module is imported
    dirs,           \* the directories made and not removed since
    xdg_in,         \* the last xdg call: the function and its arguments
    xdg_out,        \* the last xdg call: what it returned or raised
    \* ---- shell.py / subprocess.py: safe_popen ----
    proc_in,        \* the running safe_popen call: the command and what it does
    proc_pc,        \* where safe_popen stands
    proc_child,     \* the child process: none, running, exited or killed
    proc_rc,        \* popen.returncode
    proc_holders,   \* a descendant of the child still holds the pipes open
    proc_timedout,  \* communicate(timeout) raised TimeoutExpired in this call
    proc_out,       \* what the last safe_popen call returned or raised
    \* ---- shell.py / subprocess.py: create_pidfile ----
    pidfile,        \* the pidfile: whether it exists and its text
    pid_alive,      \* the PIDs of the processes that run
    pid_pc,         \* where each instance stands in create_pidfile
    pid_old,        \* old_pid of each instance
    pid_before,     \* the pidfile as it was when the instance called
    pid_res,        \* what create_pidfile did for each instance
    \* ---- meta.py: Inspector ----
    sys_path,       \* sys.path: strings and path objects
    insp_in,        \* the last Inspector(): the file of the calling frame
    insp_out        \* the last Inspector(): module_name, or what was raised

lazyVars == <<func, args, lazy_result, func_calls, log, pc, acc, local>>
chainVars == <<errors, last, hung, it_pc, it_e, it_out>>

reportVars == <<report_of, report_lines, nstr, text>>

resultVars == <<res, res_out>>

mainVars == <<main_calls, main_in, main_out>>

dateVars == <<today, date_in, date_out, range_in, range_out>>

\* the variables of the components that follow the four above
secretVars == <<secret_in, secret_cmd, secret_out>>

xdgVars == <<environ, xdg_HOME, dirs, xdg_in, xdg_out>>

procVars == <<proc_in, proc_pc, proc_child, proc_rc, proc_holders,
              proc_timedout, proc_out>>

pidVars == <<pidfile, pid_alive, pid_pc, pid_old, pid_before, pid_res>>

metaVars == <<sys_path, insp_in, insp_out>>

extVars == <<mainVars, dateVars, secretVars, xdgVars, procVars, pidVars,
             metaVars>>

coreVars == <<lazyVars, chainVars, reportVars, resultVars>>

\* what the actions of one of these components leave alone
notMain == <<coreVars, dateVars, secretVars, xdgVars, procVars, pidVars,
    metaVars>>
notDates == <<coreVars, mainVars, secretVars, xdgVars, procVars, pidVars,
    metaVars>>
notSecret == <<coreVars, mainVars, dateVars, xdgVars, procVars, pidVars,
    metaVars>>
notXdg == <<coreVars, mainVars, dateVars, secretVars, procVars, pidVars,
    metaVars>>
notProc == <<coreVars, mainVars, dateVars, secretVars, xdgVars, pidVars,
    metaVars>>
notPid == <<coreVars, mainVars, dateVars, secretVars, xdgVars, procVars,
    metaVars>>
notMeta == <<coreVars, mainVars, dateVars, secretVars, xdgVars, procVars,
    pidVars>>

vars == <<lazyVars, chainVars, reportVars, resultVars, extVars>>

None == [tag |-> "None"]

\* None as the value of __cause__ (an exception is one of 1..Len(errors))
NoCause == 0

\* no call made yet on the errors
NoCall == [op |-> "none", e1 |-> NoCause, e2 |-> NoCause, ret |-> NoCause]

\* no report() call made yet
NoReport == [e |-> NoCause, width |-> 0]

\* main() has not been called
NoMain == [argv |-> "none", parse |-> "none", verbose |-> 0,
           run |-> [kind |-> "none", status |-> 0, exc |-> "none"]]
NoMainOut == [kind |-> "none", status |-> 0, exc |-> "none", logged |-> "none"]

\* The day the process starts on: 2021-09-28, as an ordinal.
Today0 == 738061

\* parse_date / parse_daterange have not been called
NoDateIn == [type |-> "none", s |-> <<>>, ord |-> 0, time |-> 0, on |-> 0]
NoDateOut == [kind |-> "none", date |-> 0, exc |-> "none"]
NoRangeIn == [s |-> <<>>, on |-> 0]
NoRangeOut == [kind |-> "none", list |-> <<>>, exc |-> "none"]

\* An optional argument: None or a value.
NotGiven == [given |-> FALSE, val |-> <<>>]
Given(v) == [given |-> TRUE, val |-> v]

\* get_secret has not been called
NoSecretIn == [key |-> <<>>, key_parts |-> <<>>, cmd_list |-> NotGiven,
               directory |-> NotGiven, user |-> NotGiven]
NoSecretCmd == [args |-> <<>>, returncode |-> 0, stdout |-> <<>>]
NoSecretOut == [kind |-> "none", secret |-> <<>>]

\* the environment variables xdg.py reads
EnvVars == {"HOME", "XDG_CACHE_HOME", "XDG_CONFIG_HOME", "XDG_DATA_HOME",
            "XDG_RUNTIME_DIR"}

\* bugyi.lib.xdg is not imported; no xdg function has been called
NotImported == [imported |-> FALSE, given |-> FALSE, val |-> <<>>]
NoPath == [abs |-> FALSE, parts |-> <<>>]
NoXdgIn == [fn |-> "none", xdg_type |-> "none", script |-> <<>>]
NoXdgOut == [kind |-> "none", path |-> NoPath, exc |-> "none"]

\* safe_popen has not been called
NoProcIn == [module |-> "none", cmd |-> <<>>, stdout |-> NotGiven,
             stderr |-> NotGiven, ec |-> 0]
NoProcOut == [tag |-> "none", out |-> <<>>, err |-> <<>>, emsg |-> <<>>,
              exc |-> "none"]

\* the PIDs of the instances of the script, and of a process of another user
Instances == {1, 2}
ForeignPid == 3

\* there is no pidfile; create_pidfile has not been called
NoPidfile == [exists |-> FALSE, text |-> <<>>]
NoPidRes == [kind |-> "none", pid |-> 0]

\* no Inspector has been made
NoInspOut == [kind |-> "none", module_name |-> <<>>, exc |-> "none"]

\* The components that follow start idle.
InitExt ==
    /\ main_calls = 0
    /\ main_in = NoMain
    /\ main_out = NoMainOut
    /\ today = Today0
    /\ date_in = NoDateIn
    /\ date_out = NoDateOut
    /\ range_in = NoRangeIn
    /\ range_out = NoRangeOut
    /\ secret_in = NoSecretIn
    /\ secret_cmd = NoSecretCmd
    /\ secret_out = NoSecretOut
    /\ environ = [v \in EnvVars |-> NotGiven]
    /\ xdg_HOME = NotImported
    /\ dirs = {}
    /\ xdg_in = NoXdgIn
    /\ xdg_out = NoXdgOut
    /\ proc_in = NoProcIn
    /\ proc_pc = "idle"
    /\ proc_child = "none"
    /\ proc_rc = 0
    /\ proc_holders = FALSE
    /\ proc_timedout = FALSE
    /\ proc_out = NoProcOut
    /\ pidfile = NoPidfile
    /\ pid_alive = {ForeignPid}
    /\ pid_pc = [p \in Instances |-> "idle"]
    /\ pid_old = [p \in Instances |-> 0]
    /\ pid_before = [p \in Instances |-> NoPidfile]
    /\ pid_res = [p \in Instances |-> NoPidRes]
    /\ sys_path = <<>>
    /\ insp_in = <<>>
    /\ insp_out = NoInspOut

-----------------------------------------------------------------------------
(* Bounds of the model.                                                    *)

\* accessor calls made on the one LazyResult instance
MaxCalls == 3
\* threads sharing the LazyResult in the concurrent specification
NThreads == 2
\* exceptions created in one run
MaxErrs == 3
\* exceptions created before a report is made
MaxChain == 3
\* str() calls on one report object
MaxStrs == 2
\* next() calls after which an iteration that has not ended is abandoned
MaxYield == MaxErrs + 2

Threads == 1..NThreads

-----------------------------------------------------------------------------
(* result.py: Ok, Err.                                                     *)

Ok(v)  == [tag |-> "Ok", val |-> v]
Err(e) == [tag |-> "Err", val |-> e]

\* What a call returns or raises.
Returns(v)  == [kind |-> "return", val |-> v]
ReturnsNone == [kind |-> "none", val |-> 0]
Raises(e)   == [kind |-> "raise", val |-> e]

\* The callables handed to unwrap_or_else: op(error).
Ops == {"zero", "negate"}
OpApply(op, e) == IF op = "zero" THEN 0 ELSE 0 - e

\* The accessor calls a client can make: the method and its argument.
Defaults == {0, 7}
Accessors ==
    {[name |-> "unwrap", default |-> 0, op |-> "zero"],
     [name |-> "err", default |-> 0, op |-> "zero"]}
        \cup {[name |-> "unwrap_or", default |-> d, op |-> "zero"] : d \in Defaults}
        \cup {[name |-> "unwrap_or_else", default |-> 0, op |-> o] : o \in Ops}

\* _ResultMixin.__bool__, lines 20-26: raises ValueError for every object
RaisesValueError == [kind |-> "ValueError", val |-> 0]
BoolTruthy(r) == Returns(1)
Bool(r) == RaisesValueError

\* bool(x), `if x:`, `not x`
BoolAcc == [name |-> "bool", default |-> 0, op |-> "zero"]

\* no call made yet
NoOut == [on |-> "none", acc |-> BoolAcc, out |-> ReturnsNone]

\* Ok.err / Ok.unwrap / Ok.unwrap_or / Ok.unwrap_or_else
OkCallDefault(r, a) ==
    IF a.name = "err" THEN ReturnsNone
    ELSE IF a.name = "unwrap_or" THEN Returns(a.default)
    ELSE Returns(r.val)
OkCall(r, a) ==
    IF a.name = "err" THEN ReturnsNone ELSE Returns(r.val)

\* Err.err / Err.unwrap / Err.unwrap_or / Err.unwrap_or_else
ErrCallUnwrapReturns(r, a) ==
    CASE a.name = "err"            -> Returns(r.val)
      [] a.name = "unwrap"         -> Returns(r.val)
      [] a.name = "unwrap_or"      -> Returns(a.default)
      [] a.name = "unwrap_or_else" -> Returns(OpApply(a.op, r.val))
ErrCall(r, a) ==
    CASE a.name = "err"            -> Returns(r.val)
      [] a.name = "unwrap"         -> Raises(r.val)
      [] a.name = "unwrap_or"      -> Returns(a.default)
      [] a.name = "unwrap_or_else" -> Returns(OpApply(a.op, r.val))

\* Dispatch of a method call on a Result.
CallAsOk(r, a) == OkCall(r, a)
Call(r, a) == IF r.tag = "Ok" THEN OkCall(r, a) ELSE ErrCall(r, a)

-----------------------------------------------------------------------------
(* result.py: _LazyResult.                                                 *)

\* The producers a LazyResult is built from.  kind says what an invocation
\* does (return Ok, return Err, raise); a producer that is not pure gives a
\* different payload on each invocation (it reads a counter, a clock, ...).
Funcs == [kind : {"Ok", "Err", "Raise"}, pure : BOOLEAN]
ArgValues == {10, 20}

\* The n-th invocation self._func(*self._args): its payload.
FuncPayload(f, a, n) == IF f.pure THEN a ELSE a + n

\* The n-th invocation self._func(*self._args): the Result it returns.
FuncResult(f, a, n) ==
    IF f.kind = "Ok" THEN Ok(FuncPayload(f, a, n)) ELSE Err(FuncPayload(f, a, n))

\* the invocation self._func(*self._args) raises: line 111 is left before
\* its assignment
ProducerRaisesNever(f) == FALSE
ProducerRaises(f) == f.kind = "Raise"

\* `if self._result is None`
NeedsCallAlways(memo) == TRUE
NeedsCall(memo) == memo = None

\* `self._result = self._func(...)`: the memo slot after the producer returned r
StoreDropped(memo, r) == memo
Store(memo, r) == r

InitLazy ==
    /\ func \in Funcs
    /\ args \in ArgValues
    /\ lazy_result = None
    /\ func_calls = 0
    /\ log = <<>>
    /\ pc = [t \in Threads |-> "idle"]
    /\ acc = [t \in Threads |-> None]
    /\ local = [t \in Threads |-> None]
    /\ errors = <<>>
    /\ last = NoCall
    /\ hung = FALSE
    /\ it_pc = "idle"
    /\ it_e = NoCause
    /\ it_out = <<>>
    /\ report_of = NoReport
    /\ report_lines = <<>>
    /\ nstr = 0
    /\ text = <<>>
    /\ res = None
    /\ res_out = NoOut
    /\ InitExt

\* One whole accessor call made by a single-threaded client:
\* self.result() followed by the method of the Result.
Accessor(a) ==
    /\ Len(log) < MaxCalls
    /\ LET need   == NeedsCall(lazy_result)
           raised == need /\ ProducerRaises(func)
           n      == func_calls + 1
           memo   == IF need /\ ~raised
                       THEN Store(lazy_result, FuncResult(func, args, n))
                       ELSE lazy_result
       IN  /\ func_calls' = IF need THEN n ELSE func_calls
           /\ lazy_result' = memo
           /\ log' = Append(log,
                  [acc |-> a,
                   out |-> IF raised THEN Raises(FuncPayload(func, args, n))
                           ELSE Call(memo, a)])
    /\ UNCHANGED <<func, args, pc, acc, local, chainVars, reportVars,
                 resultVars, extVars>>

\* Accessor calls begun so far, finished or not.
Begun == Len(log) + Cardinality({t \in Threads : pc[t] # "idle"})

\* A thread enters an accessor and result() tests the memo slot (line 110).
Check(t, a) ==
    /\ pc[t] = "idle"
    /\ Begun < MaxCalls
    /\ acc' = [acc EXCEPT ![t] = a]
    /\ pc' = [pc EXCEPT ![t] = IF NeedsCall(lazy_result) THEN "call" ELSE "return"]
    /\ UNCHANGED <<func, args, lazy_result, func_calls, log, local, chainVars, reportVars,
                 resultVars, extVars>>

\* The thread invokes the producer (right-hand side of line 111).
CallFunc(t) ==
    /\ pc[t] = "call"
    /\ func_calls' = func_calls + 1
    /\ IF ProducerRaises(func)
         THEN /\ log' = Append(log, [acc |-> acc[t],
                          out |-> Raises(FuncPayload(func, args, func_calls + 1))])
              /\ pc' = [pc EXCEPT ![t] = "idle"]
              /\ UNCHANGED local
         ELSE /\ local' = [local EXCEPT ![t] = FuncResult(func, args, func_calls + 1)]
              /\ pc' = [pc EXCEPT ![t] = "store"]
              /\ UNCHANGED log
    /\ UNCHANGED <<func, args, lazy_result, acc, chainVars, reportVars,
                 resultVars, extVars>>

\* The thread stores what the producer returned (assignment of line 111).
StoreResult(t) ==
    /\ pc[t] = "store"
    /\ lazy_result' = Store(lazy_result, local[t])
    /\ pc' = [pc EXCEPT ![t] = "return"]
    /\ UNCHANGED <<func, args, func_calls, log, acc, local, chainVars, reportVars,
                 resultVars, extVars>>

\* The thread reads self._result (line 112) and calls the Result's method.
Return(t) ==
    /\ pc[t] = "return"
    /\ log' = Append(log, [acc |-> acc[t], out |-> Call(lazy_result, acc[t])])
    /\ pc' = [pc EXCEPT ![t] = "idle"]
    /\ UNCHANGED <<func, args, lazy_result, func_calls, acc, local, chainVars, reportVars,
                 resultVars, extVars>>

NextLazy == \E a \in Accessors : Accessor(a)

NextLazyConc ==
    \E t \in Threads :
        \/ \E a \in Accessors : Check(t, a)
        \/ CallFunc(t)
        \/ StoreResult(t)
        \/ Return(t)

\* A single-threaded client of the LazyResult.
SpecLazy == InitLazy /\ [][NextLazy]_vars

\* Threads sharing the LazyResult; the interpreter switches threads between
\* the test of line 110, the call and the store of line 111 and line 112.
SpecLazyConc == InitLazy /\ [][NextLazyConc]_vars

-----------------------------------------------------------------------------
(* result.py: a client that holds an Ok or Err object and a LazyResult.    *)

\* The values and errors an Ok or Err is built from; they include the
\* defaults handed to unwrap_or.
Values == Defaults \cup {10}
Results == {Ok(v) : v \in Values} \cup {Err(e) : e \in Values}

InitResult ==
    /\ func \in Funcs
    /\ args \in ArgValues
    /\ lazy_result = None
    /\ func_calls = 0
    /\ log = <<>>
    /\ pc = [t \in Threads |-> "idle"]
    /\ acc = [t \in Threads |-> None]
    /\ local = [t \in Threads |-> None]
    /\ errors = <<>>
    /\ last = NoCall
    /\ hung = FALSE
    /\ it_pc = "idle"
    /\ it_e = NoCause
    /\ it_out = <<>>
    /\ report_of = NoReport
    /\ report_lines = <<>>
    /\ nstr = 0
    /\ text = <<>>
    /\ res \in Results
    /\ res_out = NoOut
    /\ InitExt

\* res.err() / res.unwrap() / res.unwrap_or(d) / res.unwrap_or_else(op)
ResultCall(a) ==
    /\ res_out' = [on |-> "Result", acc |-> a, out |-> Call(res, a)]
    /\ UNCHANGED <<res, lazyVars, chainVars, reportVars, extVars>>

\* bool(res)
BoolResult ==
    /\ res_out' = [on |-> "Result", acc |-> BoolAcc, out |-> Bool(res)]
    /\ UNCHANGED <<res, lazyVars, chainVars, reportVars, extVars>>

\* bool(lazy): __bool__ of the mixin; result() is not called
BoolLazy ==
    /\ res_out' = [on |-> "Lazy", acc |-> BoolAcc, out |-> Bool(lazy_result)]
    /\ UNCHANGED <<res, lazyVars, chainVars, reportVars, extVars>>

NextResult ==
    \/ \E a \in Accessors : ResultCall(a)
    \/ BoolResult
    \/ BoolLazy
    \/ /\ Len(log) = 0
       /\ \E a \in Accessors : Accessor(a)

\* A single-threaded client that calls the methods of an Ok or Err object,
\* coerces it and a LazyResult to bool, and accesses the LazyResult once.
SpecResult == InitResult /\ [][NextResult]_vars

-----------------------------------------------------------------------------
(* Claims on LazyResult.                                                   *)

\* The Result the first invocation of the producer returns.
FirstResult == FuncResult(func, args, 1)

\* C1: for a producer that returns a Result, the producer has not been
\* invoked before the first accessor call, has been invoked exactly once after
\* one or more accessor calls, and every accessor call (the first and all
\* later ones) gives what its method gives on the outcome of that one
\* invocation.
C1_ProducerOnce ==
    /\ Len(log) = 0 => func_calls = 0 /\ lazy_result = None
    /\ (func.kind # "Raise" /\ Len(log) >= 1) =>
          /\ func_calls = 1
          /\ lazy_result = FirstResult
          /\ \A i \in 1..Len(log) : log[i].out = Call(FirstResult, log[i].acc)

\* C1 witness: several accessor calls of different kinds were made on a
\* LazyResult whose producer is not pure, and it ran once.
C1_Witness ==
    /\ func.kind = "Err" /\ ~func.pure
    /\ Len(log) = MaxCalls
    /\ log[1].acc.name = "unwrap" /\ log[2].acc.name = "err"
    /\ log[MaxCalls].acc.name = "unwrap_or"
    /\ func_calls = 1

\* C2: under concurrent first access the producer (one that returns a
\* Result) runs exactly once: never more than once, and once as soon as an
\* accessor call has finished.
C2_ProducerOnceConcurrent ==
    func.kind # "Raise" =>
        /\ func_calls <= 1
        /\ Len(log) >= 1 => func_calls = 1

-----------------------------------------------------------------------------
(* errors.py: BugyiError, chain_errors, BugyiError.__iter__.               *)

\* An exception object: its class, the message it was built with, the call
\* site its Inspector recorded, and __cause__.
Exc(c, m, o) == [cls |-> c, emsg |-> m, origin |-> o, cause |-> NoCause]

\* e.__cause__
Cause(errs, e) == errs[e].cause

\* The error reached from e after k steps along __cause__ (NoCause once the
\* chain has ended).
RECURSIVE Follow(_, _, _)
Follow(errs, e, k) ==
    IF k = 0 \/ e = NoCause THEN e ELSE Follow(errs, Cause(errs, e), k - 1)

\* Whether `while cause:` / `while e:` started at e ever ends: a walk that
\* has not reached None after as many steps as there are errors is in a cycle.
Terminates(errs, e) == Follow(errs, e, Len(errs)) = NoCause

\* chain_errors, lines 213-217: the error the loop stops at.
DeepestNoWalk(errs, e) == e
RECURSIVE Deepest(_, _)
Deepest(errs, e) ==
    IF Cause(errs, e) = NoCause THEN e ELSE Deepest(errs, Cause(errs, e))

\* chain_errors(e1, e2), for a walk that ends: line 218.
chain_errors(errs, e1, e2) ==
    [errs EXCEPT ![Deepest(errs, e1)].cause = e2]

\* BugyiError(emsg, cause=cz, up=...) of class c: __init__ calls
\* chain_errors(self, cause) on the new object, then records the call site.
NewError(c, m, o, cz) ==
    /\ ~hung /\ it_pc # "loop" /\ report_of = NoReport
    /\ Len(errors) < MaxErrs
    /\ cz \in 0..Len(errors)
    /\ LET self == Len(errors) + 1
       IN  /\ errors' = chain_errors(Append(errors, Exc(c, m, o)), self, cz)
           /\ last' = [op |-> "new", e1 |-> self, e2 |-> cz, ret |-> self]
    /\ UNCHANGED <<hung, it_pc, it_e, it_out, lazyVars, reportVars,
                 resultVars, extVars>>

\* A client calls chain_errors(e1, e2) on existing exceptions (e2 may be
\* None).  On a chain that loops back the walk of lines 215-217 never ends.
ChainErrors(e1, e2) ==
    /\ ~hung /\ it_pc # "loop"
    /\ e1 \in 1..Len(errors) /\ e2 \in 0..Len(errors)
    /\ IF Terminates(errors, e1)
         THEN /\ errors' = chain_errors(errors, e1, e2)
              /\ last' = [op |-> "chain_errors", e1 |-> e1, e2 |-> e2, ret |-> e1]
              /\ UNCHANGED hung
         ELSE /\ hung' = TRUE
              /\ UNCHANGED <<errors, last>>
    /\ UNCHANGED <<it_pc, it_e, it_out, lazyVars, reportVars,
                 resultVars, extVars>>

\* iter(e) and the first next(): `yield self`, lines 60-62.
IterStart(e) ==
    /\ ~hung /\ it_pc # "loop"
    /\ e \in 1..Len(errors)
    /\ it_out' = <<e>>
    /\ it_e' = Cause(errors, e)
    /\ it_pc' = "loop"
    /\ last' = [op |-> "iter", e1 |-> e, e2 |-> NoCause, ret |-> NoCause]
    /\ UNCHANGED <<errors, hung, lazyVars, reportVars,
                 resultVars, extVars>>

\* A later next(): one round of `while e:`, lines 63-65, or its exit.
IterNext ==
    /\ ~hung /\ it_pc = "loop"
    /\ Len(it_out) < MaxYield
    /\ IF it_e # NoCause
         THEN /\ it_out' = Append(it_out, it_e)
              /\ it_e' = Cause(errors, it_e)
              /\ UNCHANGED it_pc
         ELSE /\ it_pc' = "done"
              /\ UNCHANGED <<it_out, it_e>>
    /\ UNCHANGED <<errors, last, hung, lazyVars, reportVars,
                 resultVars, extVars>>

InitChain ==
    /\ func = [kind |-> "Ok", pure |-> TRUE]
    /\ args = 10
    /\ lazy_result = None
    /\ func_calls = 0
    /\ log = <<>>
    /\ pc = [t \in Threads |-> "idle"]
    /\ acc = [t \in Threads |-> None]
    /\ local = [t \in Threads |-> None]
    /\ errors = <<>>
    /\ last = NoCall
    /\ hung = FALSE
    /\ it_pc = "idle"
    /\ it_e = NoCause
    /\ it_out = <<>>
    /\ report_of = NoReport
    /\ report_lines = <<>>
    /\ nstr = 0
    /\ text = <<>>
    /\ res = None
    /\ res_out = NoOut
    /\ InitExt

NextChain ==
    \/ \E cz \in 0..MaxErrs : NewError("BugyiError", "one", "short", cz)
    \/ \E e1 \in 1..MaxErrs, e2 \in 0..MaxErrs : ChainErrors(e1, e2)
    \/ \E e \in 1..MaxErrs : IterStart(e)
    \/ IterNext

\* A single-threaded client that builds errors, chains them and iterates.
SpecChain == InitChain /\ [][NextChain]_vars

-----------------------------------------------------------------------------
(* Claims on the error chain.                                              *)

\* C3: chain_errors(A, C) on an error A whose chain is A -> B (B has no
\* cause) makes C the cause of B, leaves the link A -> B and every other
\* error as it was, and returns A.
C3_AttachAtDeepest ==
    [][\A a \in 1..MaxErrs, b \in 1..MaxErrs, c \in 0..MaxErrs :
          ( /\ a \in 1..Len(errors) /\ b \in 1..Len(errors)
            /\ Cause(errors, a) = b
            /\ Cause(errors, b) = NoCause
            /\ ChainErrors(a, c) )
          => /\ Cause(errors', a) = b
             /\ Cause(errors', b) = c
             /\ last'.ret = a
             /\ \A e \in 1..Len(errors) : e # b => errors'[e] = errors[e]
             /\ ~hung']_vars

\* C3 witness: chain_errors(A, C) has just returned A and the chain is
\* A -> B -> C with three different errors, so it was A -> B before the call.
C3_Witness ==
    \E a \in 1..Len(errors), b \in 1..Len(errors), c \in 1..Len(errors) :
        /\ a # b /\ b # c /\ a # c
        /\ last = [op |-> "chain_errors", e1 |-> a, e2 |-> c, ret |-> a]
        /\ Cause(errors, a) = b
        /\ Cause(errors, b) = c
        /\ Cause(errors, c) = NoCause

\* C4: after any sequence of chain_errors calls every cause chain is a
\* finite acyclic list (no error reaches itself along cause links) and no
\* call is lost in a walk that never ends.
C4_ChainStaysAcyclic ==
    /\ ~hung
    /\ \A e \in 1..Len(errors) : Terminates(errors, e)

\* C5: an iteration yields the error it was started on first, then each
\* yielded error's cause in chain order, no error twice, and ends at the
\* first error without a cause.
C5_IterationInChainOrder ==
    it_pc # "idle" =>
        /\ \A i \in 1..Len(it_out), j \in 1..Len(it_out) :
              i # j => it_out[i] # it_out[j]
        /\ \A i \in 1..(Len(it_out) - 1) :
              it_out[i + 1] = Cause(errors, it_out[i])
        /\ it_pc = "done" => Cause(errors, it_out[Len(it_out)]) = NoCause
        /\ it_pc = "loop" /\ Len(it_out) = MaxYield => it_e = NoCause

-----------------------------------------------------------------------------
(* Strings: sequences of characters.                                       *)

\* c * n
Rep(c, n) == [i \in 1..n |-> c]

\* "\n"
NL == "\n"
SP == " "

Min(S) == CHOOSE x \in S : \A y \in S : x <= y

\* s[i:] (0-based i as in the code: the characters after the first i)
From(s, i) == SubSeq(s, i + 1, Len(s))

\* s.split("\n"): the pieces between newlines, empty pieces included
RECURSIVE Split(_)
Split(s) ==
    LET at == {i \in 1..Len(s) : s[i] = NL}
    IN  IF at = {} THEN <<s>>
        ELSE <<SubSeq(s, 1, Min(at) - 1)>> \o Split(From(s, Min(at)))

\* sep.join(parts)
RECURSIVE Join(_, _)
Join(parts, sep) ==
    IF parts = <<>> THEN <<>>
    ELSE IF Len(parts) = 1 THEN parts[1]
    ELSE parts[1] \o sep \o Join(Tail(parts), sep)

\* s.strip() == '' for a string of the model's alphabet
IsBlank(s) == \A i \in 1..Len(s) : s[i] = SP

-----------------------------------------------------------------------------
(* io.py: ewrap and efill, over textwrap.wrap(msg, width,                  *)
(* subsequent_indent=spaces, drop_whitespace=True).  The texts of the      *)
(* model hold letters, digits, punctuation other than hyphens, and spaces, *)
(* so textwrap's chunks are the maximal runs of spaces and of non-spaces.  *)

\* textwrap splits the text into chunks: the end (exclusive) of the chunk
\* that starts at position i.
\* (looked for in the next span positions, then in twice as many, ...)
RECURSIVE ChunkEndWithin(_, _, _)
ChunkEndWithin(s, i, span) ==
    LET hi    == IF i + span < Len(s) THEN i + span ELSE Len(s)
        other == {j \in (i + 1)..hi : (s[j] = SP) # (s[i] = SP)}
    IN  IF other # {} THEN Min(other)
        ELSE IF hi = Len(s) THEN Len(s) + 1
        ELSE ChunkEndWithin(s, i, 2 * span)

ChunkEnd(s, i) == ChunkEndWithin(s, i, 16)

RECURSIVE ChunksFrom(_, _)
ChunksFrom(s, i) ==
    IF i > Len(s) THEN <<>>
    ELSE <<SubSeq(s, i, ChunkEnd(s, i) - 1)>> \o ChunksFrom(s, ChunkEnd(s, i))

Chunks(s) == ChunksFrom(s, 1)

\* How many of the leading chunks fit in wd columns (the inner while loop of
\* textwrap's _wrap_chunks), given that k of them, cur columns wide, fit.
RECURSIVE Fit(_, _, _, _)
Fit(chunks, wd, k, cur) ==
    IF k < Len(chunks) /\ cur + Len(chunks[k + 1]) <= wd
      THEN Fit(chunks, wd, k + 1, cur + Len(chunks[k + 1]))
      ELSE [k |-> k, cur |-> cur]

\* textwrap's _wrap_chunks: the lines made of the chunks, given that nlines
\* lines were made before; every line but the first starts with indent.
RECURSIVE WrapChunks(_, _, _, _)
WrapChunks(chunks0, width, indent, nlines) ==
    IF chunks0 = <<>> THEN <<>>
    ELSE
      LET ind    == IF nlines > 0 THEN indent ELSE <<>>
          wd     == width - Len(ind)
          \* a line other than the first does not start with whitespace
          chunks == IF IsBlank(chunks0[1]) /\ nlines > 0
                      THEN Tail(chunks0) ELSE chunks0
          fit    == Fit(chunks, wd, 0, 0)
          taken  == SubSeq(chunks, 1, fit.k)
          rest   == From(chunks, fit.k)
          \* a chunk wider than the line is broken (break_long_words)
          long   == rest # <<>> /\ Len(rest[1]) > wd
          space  == IF wd < 1 THEN 1 ELSE wd - fit.cur
          line1  == IF long THEN Append(taken, SubSeq(rest[1], 1, space))
                    ELSE taken
          rest1  == IF long THEN <<From(rest[1], space)>> \o Tail(rest)
                    ELSE rest
          \* whitespace at the end of a line is dropped
          line2  == IF line1 # <<>> /\ IsBlank(line1[Len(line1)])
                      THEN SubSeq(line1, 1, Len(line1) - 1) ELSE line1
      IN  IF chunks = <<>> THEN <<>>
          ELSE IF line2 # <<>>
            THEN <<ind \o Join(line2, <<>>)>>
                     \o WrapChunks(rest1, width, indent, nlines + 1)
            ELSE WrapChunks(rest1, width, indent, nlines)

\* ' ' * i of ewrap: the leading spaces of msg
LeadingSpaces(msg) ==
    Rep(SP, Min({i \in 1..Len(msg) : msg[i] # SP} \cup {Len(msg) + 1}) - 1)

\* ewrap's body for one line msg of the message
WrapLine(msg0, width, indent) ==
    IF msg0 = <<>> THEN << <<>> >>
    ELSE LET msg == Rep(SP, indent) \o msg0
         IN  WrapChunks(Chunks(msg), width, LeadingSpaces(msg), 0)

RECURSIVE WrapLines(_, _, _)
WrapLines(msgs, width, indent) ==
    IF msgs = <<>> THEN <<>>
    ELSE WrapLine(msgs[1], width, indent) \o WrapLines(Tail(msgs), width, indent)

\* list(ewrap(multiline_msg, width, indent))
ewrap(multiline_msg, width, indent) ==
    WrapLines(Split(multiline_msg), width, indent)

\* efill(multiline_msg, width, indent)
efill(multiline_msg, width, indent) ==
    Join(ewrap(multiline_msg, width, indent), <<NL>>)

-----------------------------------------------------------------------------
(* The errors a client builds: class names, call sites, messages.          *)

\* cname(obj): the class name, as characters
cname(c) ==
    CASE c = "BugyiError" ->
            <<"B", "u", "g", "y", "i", "E", "r", "r", "o", "r">>
      [] c = "ValidationError" ->
            <<"V", "a", "l", "i", "d", "a", "t", "i", "o", "n", "E", "r",
              "r", "o", "r">>
      [] c = "ApplicationError" ->
            <<"A", "p", "p", "l", "i", "c", "a", "t", "i", "o", "n", "E",
              "r", "r", "o", "r">>
      [] c = "ValueError" ->
            <<"V", "a", "l", "u", "e", "E", "r", "r", "o", "r">>

\* BugyiError and the subclasses of it a client defines
BugyiClasses == {"BugyiError", "ValidationError", "ApplicationError"}

\* What the Inspector recorded: module_name, function_name, line_number
Origin(o) ==
    IF o = "short"
      THEN [module_name |-> <<"m">>, function_name |-> <<"f">>,
            line_number |-> <<"7">>]
      ELSE [module_name |->
                <<"b", "u", "g", "y", "i", ".", "l", "i", "b", ".", "s", "h",
                  "e", "l", "l">>,
            function_name |->
                <<"t", "o", "_", "e", "r", "r", "o", "r">>,
            line_number |-> <<"7", "5">>]

\* The letter that marks the message of the e-th exception created.
Mark(e) == <<"x", "z", "q", "j", "k", "w">>[e]

\* The message (emsg) the client gave the e-th exception: one character, 79
\* characters in words, 500 characters (a 150-character word, then words);
\* "boom" is the message of the exception that is not a BugyiError.
MsgText(m, e) ==
    CASE m = "one" -> <<Mark(e)>>
      [] m = "words79" ->
            [i \in 1..79 |-> IF i % 10 = 0 THEN SP ELSE Mark(e)]
      [] m = "mixed500" ->
            [i \in 1..500 |->
                IF i > 150 /\ i % 10 = 0 /\ i < 500 THEN SP ELSE Mark(e)]
      [] m = "boom" -> <<"b", "o", "o", Mark(e)>>

\* What traceback.format_exception gives for an exception that is not a
\* BugyiError and was raised and caught (its message is MsgText).
Traceback(errs, e) ==
    <<"T", "r", "a", "c", "e", "b", "a", "c", "k", SP, "(", "m", "o", "s",
      "t", SP, "r", "e", "c", "e", "n", "t", SP, "c", "a", "l", "l", SP, "l",
      "a", "s", "t", ")", ":", NL, SP, SP, "F", "i", "l", "e", SP, "\"", "t",
      ".", "p", "y", "\"", ",", SP, "l", "i", "n", "e", SP, "2", "1", ",",
      SP, "i", "n", SP, "f", NL, SP, SP, SP, SP, "r", "a", "i", "s", "e", SP>>
        \o cname(errs[e].cls)
        \o <<"(", "\"">> \o MsgText(errs[e].emsg, e) \o <<"\"", ")", NL>>
        \o cname(errs[e].cls) \o <<":", SP>> \o MsgText(errs[e].emsg, e)
        \o <<NL>>

-----------------------------------------------------------------------------
(* errors.py: BugyiError._repr, _tb_or_repr, _ErrorReport, report.         *)

\* BugyiError._repr(width), lines 41-57
Repr(errs, e, width) ==
    LET super_str == MsgText(errs[e].emsg, e)
        emsg      == efill(super_str, width, 2)
        o         == Origin(errs[e].origin)
    IN  cname(errs[e].cls) \o <<":", ":">> \o o.module_name \o <<":", ":">>
            \o o.function_name \o <<":", ":">> \o o.line_number
            \o <<"{", NL>> \o emsg \o <<NL, "}">>

\* _tb_or_repr(e, width), lines 189-198
tb_or_repr(errs, e, width) ==
    IF errs[e].cls \in BugyiClasses THEN Repr(errs, e, width)
    ELSE Traceback(errs, e)

\* _ErrorReportLine(line, newlines)
ErrorReportLine(line, newlines) == [line |-> line, newlines |-> newlines]

\* _ErrorReport._add_chunk, lines 145-155: the loop from the i-th piece on
\* (i counts from 0 as enumerate does)
RECURSIVE AddPieces(_, _, _)
AddPieces(lines, chunk_split, i) ==
    IF i >= Len(chunk_split) THEN lines
    ELSE
      LET line   == chunk_split[i + 1]
          n      == Len(lines)
          lines1 ==
            IF Len(chunk_split) = 1 \/ i < Len(chunk_split) - 1
              THEN IF lines # <<>>
                     THEN [lines EXCEPT ![n].newlines = @ \o <<NL>>]
                     ELSE <<ErrorReportLine(<<>>, <<>>)>>
              ELSE lines
          lines2 == IF line # <<>>
                      THEN Append(lines1, ErrorReportLine(line, <<>>))
                      ELSE lines1
      IN  AddPieces(lines2, chunk_split, i + 1)

\* _ErrorReport._add_chunk(chunk), lines 140-155
add_chunk_newline(lines, chunk) ==
    IF chunk = <<>> THEN lines
    ELSE AddPieces(lines, Split(chunk \o <<NL>>), 0)
add_chunk(lines, chunk) ==
    IF chunk = <<>> THEN lines ELSE AddPieces(lines, Split(chunk), 0)

\* line[1:-1]
Inner(line) == SubSeq(line, 2, Len(line) - 1)

\* _close_borders, lines 158-163: the vertical borders
CloseSidesGrow(lines, V_CH) ==
    [i \in 1..Len(lines) |->
        IF lines[i].line = <<>> THEN lines[i]
        ELSE [lines[i] EXCEPT !.line = <<V_CH>> \o @ \o <<V_CH>>]]
CloseSides(lines, V_CH) ==
    [i \in 1..Len(lines) |->
        IF lines[i].line = <<>> THEN lines[i]
        ELSE [lines[i] EXCEPT !.line = <<V_CH>> \o Inner(@) \o <<V_CH>>]]

\* _close_borders, lines 167-172: where the scan that starts at index i
\* (0 or -1) and moves by inc stops; indexes count from 0 as in the code.
ScanNoStep(lines, j, inc) == j
RECURSIVE Scan(_, _, _)
Scan(lines, j, inc) ==
    IF 0 <= j /\ j < Len(lines) /\ lines[j + 1].line = <<>>
      THEN Scan(lines, j + inc, inc)
      ELSE j

\* report_lines[j] for a Python index j: a negative j counts from the end;
\* 0 when the index is out of range (IndexError)
PyIndex(lines, j) ==
    IF 0 <= j /\ j < Len(lines) THEN j + 1
    ELSE IF j < 0 /\ 0 - j <= Len(lines) THEN Len(lines) + j + 1
    ELSE 0

\* _close_borders, lines 165-175: one corner line
CloseCorner(lines, i, inc) ==
    LET k == PyIndex(lines, Scan(lines, i, inc))
    IN  [lines EXCEPT ![k].line = <<"+">> \o Inner(@) \o <<"+">>]

\* whether _close_borders raises IndexError
CloseRaises(lines) ==
    \/ PyIndex(lines, Scan(lines, 0, 1)) = 0
    \/ PyIndex(lines, Scan(lines, 0 - 1, 0 - 1)) = 0

\* _ErrorReport._close_borders, lines 157-175
close_borders(lines, V_CH) ==
    CloseCorner(CloseCorner(CloseSides(lines, V_CH), 0, 1), 0 - 1, 0 - 1)

\* "".join(rl.line + rl.newlines for rl in self.report_lines), line 134
RECURSIVE JoinLines(_)
JoinLines(lines) ==
    IF lines = <<>> THEN <<>>
    ELSE lines[1].line \o lines[1].newlines \o JoinLines(Tail(lines))

H_CH == "-"
V_CH == "|"
S_CH == "*"
MIDDLE_MSG_Longer ==
    <<"w", "a", "s", SP, "t", "h", "e", SP, "d", "i", "r", "e", "c", "t", SP,
      "c", "a", "u", "s", "e", "s", SP, "o", "f">>
MIDDLE_MSG ==
    <<"w", "a", "s", SP, "t", "h", "e", SP, "d", "i", "r", "e", "c", "t", SP,
      "c", "a", "u", "s", "e", SP, "o", "f">>

\* (a + b) * n
RECURSIVE Times(_, _)
Times(s, n) == IF n <= 0 THEN <<>> ELSE s \o Times(s, n - 1)

\* report, lines 81-85: the numbers of spaces left and right of the title
TitleSpacesExtraLeft(width, TITLE) ==
    [nleft  |-> ((width - Len(TITLE)) \div 2) + ((width - Len(TITLE)) % 2),
     nright |-> (width - Len(TITLE)) \div 2]
TitleSpaces(width, TITLE) ==
    LET nleft_spaces == (width - Len(TITLE)) \div 2
        rem          == (width - Len(TITLE)) % 2
    IN  [nleft  |-> nleft_spaces,
         nright |-> IF rem = 0 THEN nleft_spaces ELSE nleft_spaces + 1]

\* report, lines 87-89
Header(width, TITLE) ==
    <<V_CH>> \o Rep(SP, TitleSpaces(width, TITLE).nleft) \o TITLE
             \o Rep(SP, TitleSpaces(width, TITLE).nright) \o <<V_CH>>

\* report, lines 91-104
MiddleHeaderLeftFirst(width) ==
    LET minibar_length == (width - Len(MIDDLE_MSG)) \div 4
        rem            == (width - Len(MIDDLE_MSG)) % 4
        left0          == Times(<<H_CH, S_CH>>, minibar_length)
        right0         == Times(<<S_CH, H_CH>>, minibar_length)
        left_minibar   == IF rem >= 1 THEN Append(left0, H_CH) ELSE left0
        right1         == IF rem >= 2 THEN <<S_CH>> \o right0 ELSE right0
        right_minibar  == IF rem >= 3 THEN <<H_CH>> \o right1 ELSE right1
    IN  left_minibar \o <<SP>> \o MIDDLE_MSG \o <<SP>> \o right_minibar
MiddleHeader(width) ==
    LET minibar_length == (width - Len(MIDDLE_MSG)) \div 4
        rem            == (width - Len(MIDDLE_MSG)) % 4
        left0          == Times(<<H_CH, S_CH>>, minibar_length)
        right0         == Times(<<S_CH, H_CH>>, minibar_length)
        left_minibar   == IF rem >= 2 THEN Append(left0, H_CH) ELSE left0
        right1         == IF rem >= 2 THEN <<S_CH>> \o right0 ELSE right0
        right_minibar  == IF rem % 2 # 0 THEN <<H_CH>> \o right1 ELSE right1
    IN  left_minibar \o <<SP>> \o MIDDLE_MSG \o <<SP>> \o right_minibar

\* list(self): BugyiError.__iter__ run to its end on a chain that ends
ChainLen(errs, e) ==
    Min({k \in 1..Len(errs) : Follow(errs, e, k) = NoCause})
IterList(errs, e) ==
    [k \in 1..ChainLen(errs, e) |-> Follow(errs, e, k - 1)]

\* reversed(...), line 111
ReversedNot(list) == list
Reversed(list) == [k \in 1..Len(list) |-> list[Len(list) + 1 - k]]

\* `if i != 0`, line 114: whether a divider goes before the i-th block
DividerBeforeAlways(i) == TRUE
DividerBefore(i) == i # 0

\* report, line 118: the spaces that fill a content line
RightSpacesOneLess(width, line) == Rep(SP, width - Len(line) - 3)
RightSpaces(width, line) == Rep(SP, width - Len(line) - 2)

\* report, lines 117-119: the content lines of one error, added to the report
RECURSIVE AddContent(_, _, _)
AddContent(lines, wrapped, width) ==
    IF wrapped = <<>> THEN lines
    ELSE
      LET line         == wrapped[1]
          right_spaces == RightSpaces(width, line)
          lines1       == add_chunk(lines, <<V_CH, SP>> \o line
                                     \o right_spaces \o <<SP, V_CH, NL>>)
      \* (the test makes lines1 be computed before the next round)
      IN  IF Len(lines1) >= 0
            THEN AddContent(lines1, Tail(wrapped), width)
            ELSE lines1

\* report, lines 111-119: the loop from the i-th error of order on
RECURSIVE AddBlocks(_, _, _, _, _, _)
AddBlocks(lines, errs, order, i, width, dashes) ==
    IF i >= Len(order) THEN lines
    ELSE
      LET w            == width - 2
          error_string == tb_or_repr(errs, order[i + 1], w)
          lines1       ==
            IF DividerBefore(i)
              THEN add_chunk(lines, dashes \o <<NL>> \o MiddleHeader(width)
                                      \o <<NL>> \o dashes \o <<NL>>)
              ELSE lines
          lines2       == AddContent(lines1, ewrap(error_string, w, 0), width)
      \* (the test makes lines2 be computed before the next round)
      IN  IF Len(lines2) >= 0
            THEN AddBlocks(lines2, errs, order, i + 1, width, dashes)
            ELSE lines2

\* BugyiError.report(width), lines 67-122: the report_lines of the
\* _ErrorReport it returns
report(errs, self, width) ==
    LET TITLE  == cname(errs[self].cls)
        header == Header(width, TITLE)
        dashes == Rep("-", Len(header))
        r0     == add_chunk(<<>>, <<NL>>)
        r1     == add_chunk(r0, dashes \o <<NL>> \o header \o <<NL>>
                                   \o dashes \o <<NL>>)
        r2     == AddBlocks(r1, errs, Reversed(IterList(errs, self)), 0,
                            width, dashes)
    IN  add_chunk(r2, dashes)

-----------------------------------------------------------------------------
(* Reports of the errors a client built.                                   *)

Widths == {40, 80, 120}

\* What a client passes to BugyiError(...) or a subclass: class, message,
\* call site.
Templates ==
    {[cls |-> "BugyiError", emsg |-> "one", origin |-> "short"],
     [cls |-> "ValidationError", emsg |-> "words79", origin |-> "long"],
     [cls |-> "ApplicationError", emsg |-> "mixed500", origin |-> "short"]}

\* An exception that is not a BugyiError is raised and caught.
NewForeign(c, m) ==
    /\ ~hung /\ it_pc # "loop" /\ report_of = NoReport
    /\ Len(errors) < MaxErrs
    /\ errors' = Append(errors, Exc(c, m, "short"))
    /\ last' = [op |-> "raise", e1 |-> Len(errors) + 1, e2 |-> NoCause,
                ret |-> NoCause]
    /\ UNCHANGED <<hung, it_pc, it_e, it_out, lazyVars, reportVars,
                 resultVars, extVars>>

\* e.report(width): list(self) never ends on a chain that loops back.
Report(e, width) ==
    /\ ~hung /\ it_pc # "loop"
    /\ e \in 1..Len(errors) /\ errors[e].cls \in BugyiClasses
    /\ report_of \in {NoReport, [e |-> e, width |-> width]}
    /\ nstr < MaxStrs
    /\ IF Terminates(errors, e)
         THEN /\ report_lines' = report(errors, e, width)
              /\ report_of' = [e |-> e, width |-> width]
              /\ nstr' = 0
              /\ UNCHANGED hung
         ELSE /\ hung' = TRUE
              /\ UNCHANGED <<report_lines, report_of, nstr>>
    /\ UNCHANGED <<text, errors, last, it_pc, it_e, it_out, lazyVars,
                 resultVars, extVars>>

\* str(report): _ErrorReport.__str__, lines 132-134
Str ==
    /\ ~hung /\ report_of # NoReport
    /\ nstr < MaxStrs
    /\ ~CloseRaises(report_lines)
    /\ report_lines' = close_borders(report_lines, V_CH)
    /\ text' = JoinLines(report_lines')
    /\ nstr' = nstr + 1
    /\ UNCHANGED <<report_of, chainVars, lazyVars, resultVars, extVars>>

InitReport == InitChain

NextReport ==
    \/ /\ Len(errors) = 0
       /\ NewForeign("ValueError", "boom")
    \/ /\ Len(errors) < MaxChain
       /\ \E t \in Templates : NewError(t.cls, t.emsg, t.origin, Len(errors))
    \/ \E w \in Widths : Report(Len(errors), w)
    \/ Str

\* A single-threaded client that builds a chain of errors with the
\* constructor, each new error caused by the one before, and prints the last.
SpecReport == InitReport /\ [][NextReport]_vars

\* Widths that leave every remainder of (width - len(MIDDLE_MSG)) / 4
DividerWidths == 38..60

NextDivider ==
    \/ /\ Len(errors) < 2
       /\ NewError("BugyiError", "one", "short", Len(errors))
    \/ \E w \in DividerWidths : Report(Len(errors), w)
    \/ Str

\* A client that reports one error, or an error and its cause, at one of
\* many widths.
SpecDivider == InitReport /\ [][NextDivider]_vars

-----------------------------------------------------------------------------
(* Claims on the rendered report.  They are stated on text, the string     *)
(* str(report) returned.                                                   *)

\* str() has been applied to the current report object
Printed == nstr >= 1

\* the lines of the output
OutLines == Split(text)

\* the chain that was reported: the k-th error of the iteration, and its length
ReportedLen == ChainLen(errors, report_of.e)
Reported(k) == Follow(errors, report_of.e, k - 1)

\* the title of the report
Title == cname(errors[report_of.e].cls)

\* a line of dashes between two border or corner characters
IsRule(l) == Len(l) >= 3 /\ \A i \in 2..(Len(l) - 1) : l[i] = "-"

\* a line that holds "was the direct cause of" after its first space
IsDivider(l) ==
    LET p == Min({i \in 1..Len(l) : l[i] = SP} \cup {Len(l) + 1})
    IN  /\ p + Len(MIDDLE_MSG) <= Len(l)
        /\ SubSeq(l, p + 1, p + Len(MIDDLE_MSG)) = MIDDLE_MSG

\* the lines after the title and its rule, up to the bottom border
Body(L) == SubSeq(L, 5, Len(L) - 1)

IsContent(l) == l # <<>> /\ ~IsRule(l) /\ ~IsDivider(l)

\* the (0-based) block a body line belongs to: the dividers before it
BlockOf(B, p) == Cardinality({q \in 1..(p - 1) : IsDivider(B[q])})

\* the marks of the created errors that occur in a line
MarksIn(l) ==
    {e \in 1..Len(errors) : \E i \in 1..Len(l) : l[i] = Mark(e)}

\* the spaces before and after the title in the title line
TitleLeft(l) == Min({i \in 2..Len(l) : l[i] # SP}) - 2
TitleRight(l) ==
    Len(l) - 1 - (CHOOSE i \in 2..(Len(l) - 1) :
                     l[i] # SP /\ \A j \in (i + 1)..(Len(l) - 1) : l[j] = SP)

\* C6 (as claimed): every line of the output (title, border, divider and
\* content lines) has exactly width characters, borders included.
C6_EveryLineWidth ==
    Printed =>
        \A i \in 1..Len(OutLines) :
            OutLines[i] # <<>> => Len(OutLines[i]) = report_of.width

\* C6 (amended): every line of the output (title, border, divider and
\* content lines) has exactly width + 2 characters, borders included: width
\* characters between the two border characters.
C6_EveryLineWidthPlus2 ==
    Printed =>
        LET L == OutLines
        IN  /\ Len(L) >= 6
            /\ \A i \in 2..Len(L) :
                  /\ Len(L[i]) = report_of.width + 2
                  /\ L[i][1] \in {V_CH, "+"}
                  /\ L[i][Len(L[i])] \in {V_CH, "+"}

\* C6 witness: a report of two errors, one with the 500-character message,
\* was printed at width 40; it has a divider and more than 20 lines.
C6_Witness ==
    /\ Printed /\ report_of.width = 40 /\ ReportedLen = 2
    /\ errors[report_of.e].emsg = "mixed500"
    /\ errors[Reported(2)].emsg = "one"
    /\ Len(OutLines) > 20
    /\ \E i \in 1..Len(OutLines) : IsDivider(OutLines[i])

\* C7: the blocks of the output are the errors of the chain in the reverse
\* of iteration order: every content line of block i (counted from 0) shows
\* the message mark of the (N-1-i)-th error of the iteration and of no other
\* error, and each error's mark is shown.
C7_OldestFirst ==
    Printed =>
        LET B == Body(OutLines)
            N == ReportedLen
        IN  /\ \A p \in 1..Len(B) :
                  IsContent(B[p]) =>
                      /\ BlockOf(B, p) < N
                      /\ MarksIn(B[p]) \subseteq {Reported(N - BlockOf(B, p))}
            /\ \A k \in 1..N :
                  \E p \in 1..Len(B) :
                      /\ IsContent(B[p])
                      /\ BlockOf(B, p) = N - k
                      /\ MarksIn(B[p]) = {Reported(k)}

\* C7 witness: outer = BugyiError(..., cause=inner) was printed at width 80;
\* the iteration yields <<outer, inner>>.
C7_Witness ==
    /\ Printed /\ report_of.width = 80
    /\ Len(errors) = 2 /\ report_of.e = 2
    /\ errors[1].cls = "BugyiError" /\ errors[2].cls = "BugyiError"
    /\ Reported(1) = 2 /\ Reported(2) = 1 /\ ReportedLen = 2

\* C8: the output of a chain of N errors has N blocks of content lines and
\* N - 1 divider lines; every divider stands between two rules, after the
\* last content line of one block and before the first of the next.
C8_BlocksAndDividers ==
    Printed =>
        LET B == Body(OutLines)
            N == ReportedLen
        IN  /\ Cardinality({p \in 1..Len(B) : IsDivider(B[p])}) = N - 1
            /\ Cardinality({p \in 1..Len(B) :
                    IsContent(B[p]) /\ (p = 1 \/ ~IsContent(B[p - 1]))}) = N
            /\ \A p \in 1..Len(B) :
                  IsDivider(B[p]) =>
                      /\ p >= 3 /\ p + 2 <= Len(B)
                      /\ IsRule(B[p - 1]) /\ IsRule(B[p + 1])
                      /\ IsContent(B[p - 2]) /\ IsContent(B[p + 2])
            /\ \A p \in 1..Len(B) :
                  IsRule(B[p]) =>
                      \/ p > 1 /\ IsDivider(B[p - 1])
                      \/ p < Len(B) /\ IsDivider(B[p + 1])

\* C8 witness: a report of three errors, hence with two dividers, was printed.
C8_Witness ==
    /\ Printed /\ ReportedLen = 3
    /\ Cardinality({p \in 1..Len(OutLines) : IsDivider(OutLines[p])}) = 2

\* C9: in the title line the title is preceded by floor((width -
\* len(title)) / 2) spaces and followed by as many, plus one when width -
\* len(title) is odd; spaces and title fill width columns.
C9_TitleCentred ==
    Printed =>
        LET l    == OutLines[3]
            diff == report_of.width - Len(Title)
        IN  /\ SubSeq(l, TitleLeft(l) + 2, Len(l) - TitleRight(l) - 1) = Title
            /\ TitleLeft(l) = diff \div 2
            /\ TitleRight(l) = TitleLeft(l) + (IF diff % 2 = 0 THEN 0 ELSE 1)
            /\ TitleLeft(l) + Len(Title) + TitleRight(l) = report_of.width

\* C9 witness: a title whose length differs from the width by an odd number
\* was printed.
C9_Witness ==
    /\ Printed
    /\ (report_of.width - Len(Title)) % 2 = 1
    /\ TitleRight(OutLines[3]) = TitleLeft(OutLines[3]) + 1

\* C10 (as claimed): at width 80 a 15-character title has 32 spaces on its
\* left and 32 on its right, and a 16-character title as many on either side.
C10_Title15Symmetric ==
    (Printed /\ report_of.width = 80) =>
        /\ Len(Title) = 15 =>
              TitleLeft(OutLines[3]) = 32 /\ TitleRight(OutLines[3]) = 32
        /\ Len(Title) = 16 =>
              TitleLeft(OutLines[3]) = TitleRight(OutLines[3])

\* C10 (amended): at width 80 a 15-character title has 32 spaces on its left
\* and 33 on its right; a 16-character title has 32 on either side.
C10_Title15And16At80 ==
    (Printed /\ report_of.width = 80) =>
        /\ Len(Title) = 15 =>
              TitleLeft(OutLines[3]) = 32 /\ TitleRight(OutLines[3]) = 33
        /\ Len(Title) = 16 =>
              TitleLeft(OutLines[3]) = 32 /\ TitleRight(OutLines[3]) = 32

\* C10 witness: an error with a 15-character class name was printed at
\* width 80.
C10_Witness ==
    /\ Printed /\ report_of.width = 80
    /\ Len(Title) = 15
    /\ TitleRight(OutLines[3]) = 33

-----------------------------------------------------------------------------
(* Claims on the divider.  They are stated on the lines of the report      *)
(* object, before and after str() closed its borders.                      *)

\* the divider lines of the report object
DividerLines ==
    {i \in 1..Len(report_lines) : IsDivider(report_lines[i].line)}

\* the minibars of a divider line: the text before the first space and the
\* text after the space that follows the message
LeftMinibar(l) ==
    SubSeq(l, 1, Min({i \in 1..Len(l) : l[i] = SP}) - 1)
RightMinibar(l) ==
    SubSeq(l, Min({i \in 1..Len(l) : l[i] = SP}) + Len(MIDDLE_MSG) + 2,
           Len(l))

\* the message between the two spaces that end and begin the minibars
MiddleOf(l) ==
    SubSeq(l, Len(LeftMinibar(l)) + 2, Len(l) - Len(RightMinibar(l)) - 1)

\* a minibar as it is in the report: built as bar and, once the borders are
\* closed, with the border character in the place of its outer character
ShownAs(shown, bar, outer) ==
    \/ nstr = 0 /\ shown = bar
    \/ /\ nstr >= 1 /\ Len(shown) = Len(bar)
       /\ \A i \in 1..Len(bar) :
             shown[i] = (IF i = outer THEN V_CH ELSE bar[i])

\* C11 (as claimed): with (q, r) = divmod(width - len(MIDDLE_MSG), 4) the
\* left minibar has one extra character whenever r >= 1 and the right
\* minibar the remaining r - 1 extra characters.
C11_RemainderLeftFirst ==
    report_of # NoReport =>
        \A i \in DividerLines :
            LET l == report_lines[i].line
                q == (report_of.width - Len(MIDDLE_MSG)) \div 4
                r == (report_of.width - Len(MIDDLE_MSG)) % 4
            IN  /\ Len(LeftMinibar(l)) = 2 * q + (IF r >= 1 THEN 1 ELSE 0)
                /\ Len(RightMinibar(l)) =
                       2 * q + (IF r >= 1 THEN r - 1 ELSE 0)

\* C11 (amended): with (q, r) = divmod(width - len(MIDDLE_MSG), 4) the left
\* minibar is q pairs "-*" and the right minibar q pairs "*-"; when r >= 2
\* the left minibar has one more trailing "-" and the right minibar one more
\* leading "*"; when r is odd the right minibar has one further leading "-".
\* A remainder of 1 goes to the right minibar alone.
C11_RemainderRule ==
    report_of # NoReport =>
        \A i \in DividerLines :
            LET l == report_lines[i].line
                q == (report_of.width - Len(MIDDLE_MSG)) \div 4
                r == (report_of.width - Len(MIDDLE_MSG)) % 4
                left  == Times(<<"-", "*">>, q)
                             \o (IF r >= 2 THEN <<"-">> ELSE <<>>)
                right == (IF r % 2 = 1 THEN <<"-">> ELSE <<>>)
                             \o (IF r >= 2 THEN <<"*">> ELSE <<>>)
                             \o Times(<<"*", "-">>, q)
            IN  /\ ShownAs(LeftMinibar(l), left, 1)
                /\ ShownAs(RightMinibar(l), right, Len(right))
                /\ MiddleOf(l) = MIDDLE_MSG

\* C11 witness: a report with a divider was built at a width that leaves the
\* remainder 1, and the right minibar is one character longer than the left.
C11_Witness ==
    /\ report_of # NoReport
    /\ (report_of.width - Len(MIDDLE_MSG)) % 4 = 1
    /\ \E i \in DividerLines :
          Len(RightMinibar(report_lines[i].line))
              = Len(LeftMinibar(report_lines[i].line)) + 1

\* C12 (as claimed): at width 80 the divider message is 24 characters long
\* and both minibars are 28 characters long.
C12_Message24Minibars28 ==
    (report_of # NoReport /\ report_of.width = 80) =>
        \A i \in DividerLines :
            LET l == report_lines[i].line
            IN  /\ Len(MiddleOf(l)) = 24
                /\ Len(LeftMinibar(l)) = 28
                /\ Len(RightMinibar(l)) = 28

\* C12 (amended): at width 80 the divider message "was the direct cause of"
\* is 23 characters long, divmod(80 - 23, 4) = (14, 1), the left minibar is
\* 28 characters long and the right minibar 29.
C12_Message23Minibars28And29 ==
    (report_of # NoReport /\ report_of.width = 80) =>
        \A i \in DividerLines :
            LET l == report_lines[i].line
            IN  /\ Len(MiddleOf(l)) = 23
                /\ (80 - Len(MiddleOf(l))) \div 4 = 14
                /\ (80 - Len(MiddleOf(l))) % 4 = 1
                /\ Len(LeftMinibar(l)) = 28
                /\ Len(RightMinibar(l)) = 29
                /\ Len(l) = 82

\* C12 witness: a report with a divider was built at width 80.
C12_Witness ==
    /\ report_of # NoReport /\ report_of.width = 80
    /\ DividerLines # {}
    /\ \A i \in DividerLines : Len(RightMinibar(report_lines[i].line)) = 29

-----------------------------------------------------------------------------
(* Claims on closing the borders and on the string form.                   *)

\* the non-blank lines of a report object
NonBlank(lines) == {i \in 1..Len(lines) : lines[i].line # <<>>}

Max(S) == CHOOSE x \in S : \A y \in S : y <= x

\* the character that closing puts at both ends of line i
EndCh(lines, i) ==
    IF i = Min(NonBlank(lines)) \/ i = Max(NonBlank(lines))
      THEN "+" ELSE V_CH

\* C13: str(report) closes the borders: the first non-blank line from the
\* top and the first non-blank line from the bottom get "+" as first and
\* last character, every other non-blank line gets the vertical border
\* character there, nothing else of a line changes, and blank lines and the
\* newlines of every line stay as they were.
C13_CornersAndSides ==
    [][nstr' = nstr + 1 =>
          /\ Len(report_lines') = Len(report_lines)
          /\ NonBlank(report_lines) # {}
          /\ \A i \in 1..Len(report_lines) :
                LET old == report_lines[i]
                    new == report_lines'[i]
                IN  /\ new.newlines = old.newlines
                    /\ old.line = <<>> => new.line = <<>>
                    /\ old.line # <<>> =>
                          /\ Len(new.line) = Len(old.line)
                          /\ Inner(new.line) = Inner(old.line)
                          /\ new.line[1] = EndCh(report_lines, i)
                          /\ new.line[Len(new.line)] = EndCh(report_lines, i)
    ]_vars

\* C13 witness: a report whose first line is blank was closed; its second
\* and its last line carry the corners and the title line the borders.
C13_Witness ==
    /\ Printed
    /\ report_lines[1].line = <<>>
    /\ report_lines[2].line[1] = "+"
    /\ report_lines[3].line[1] = V_CH
    /\ report_lines[Len(report_lines)].line[1] = "+"
    /\ Len(report_lines) > 6

\* C14: the string form of a report is its lines in append order, each
\* followed by its newlines: every line but the last is followed by exactly
\* one newline, no line after the leading blank line is empty, and the
\* output ends with the closing border line and no newline.
C14_LinesAndNewlines ==
    Printed =>
        LET L == OutLines
            n == Len(report_lines)
        IN  /\ Len(L) = n
            /\ \A i \in 1..n :
                  /\ L[i] = report_lines[i].line
                  /\ report_lines[i].newlines =
                         (IF i < n THEN <<NL>> ELSE <<>>)
                  /\ i >= 2 => L[i] # <<>>
            /\ text[Len(text)] = "+"
            /\ L[n] = <<"+">> \o Rep("-", report_of.width) \o <<"+">>
            /\ L[1] = <<>>

\* C14 witness: a report of two errors was printed; its text has as many
\* newlines as the report has lines but one.
C14_Witness ==
    /\ Printed /\ ReportedLen = 2
    /\ Cardinality({i \in 1..Len(text) : text[i] = NL})
           = Len(report_lines) - 1
    /\ text[Len(text)] # NL

-----------------------------------------------------------------------------
(* Claims on Ok, Err and the equivalence of LazyResult.                    *)

\* the last call was method name on the Ok or Err object
Called(name) == res_out.on = "Result" /\ res_out.acc.name = name

\* C15: Ok(v).unwrap() returns v, and Err(e).unwrap() raises e itself.
C15_Unwrap ==
    Called("unwrap") =>
        /\ res.tag = "Ok" => res_out.out = [kind |-> "return", val |-> res.val]
        /\ res.tag = "Err" => res_out.out = [kind |-> "raise", val |-> res.val]

\* C15 witness: unwrap() was called on Err(7) and raised 7.
C15_Witness ==
    /\ Called("unwrap") /\ res = Err(7)
    /\ res_out.out.kind = "raise" /\ res_out.out.val = 7

\* C16 (as claimed): r.unwrap_or(d) returns d if and only if r is an Err;
\* for an Ok it returns the contained value.
C16_DefaultIffErr ==
    Called("unwrap_or") =>
        /\ (res_out.out = Returns(res_out.acc.default)) <=> (res.tag = "Err")
        /\ res.tag = "Ok" => res_out.out = Returns(res.val)

\* C16 (amended): r.unwrap_or(d) returns d if r is an Err and the contained
\* value if r is an Ok; what it returns differs from d only if r is an Ok,
\* and an Ok that contains d returns d as well.
C16_DefaultIfErr ==
    Called("unwrap_or") =>
        /\ res_out.out.kind = "return"
        /\ res.tag = "Err" => res_out.out.val = res_out.acc.default
        /\ res.tag = "Ok" => res_out.out.val = res.val
        /\ res_out.out.val # res_out.acc.default => res.tag = "Ok"

\* C16 witness: unwrap_or(7) was called on Ok(7) and returned 7, the
\* contained value and the default at once.
C16_Witness ==
    /\ Called("unwrap_or") /\ res = Ok(7) /\ res_out.acc.default = 7
    /\ res_out.out = Returns(7)

C18_LazyEquivalent ==
    func.kind # "Raise" =>
        \A i \in 1..Len(log) :
            LET a == log[i].acc
                v == FuncPayload(func, args, 1)
            IN  log[i].out =
                  IF func.kind = "Ok"
                    THEN (IF a.name = "err" THEN ReturnsNone ELSE Returns(v))
                    ELSE CASE a.name = "err"            -> Returns(v)
                           [] a.name = "unwrap"         -> Raises(v)
                           [] a.name = "unwrap_or"      -> Returns(a.default)
                           [] a.name = "unwrap_or_else" ->
                                  Returns(OpApply(a.op, v))

\* C18 witness: on a LazyResult of a producer that returns Err, unwrap_or_else
\* was called first and unwrap later; the later call raised the error.
C18_Witness ==
    /\ func.kind = "Err"
    /\ Len(log) = MaxCalls
    /\ log[1].acc.name = "unwrap_or_else" /\ log[1].acc.op = "negate"
    /\ log[2].acc.name = "unwrap"
    /\ log[2].out = Raises(FuncPayload(func, args, 1))
    /\ log[MaxCalls].acc.name = "err"

-----------------------------------------------------------------------------
(* Claim on repeated rendering.                                            *)

\* C19: report() and str() of a chain that ends raise nothing, and a str()
\* that follows an earlier str() of the same error at the same width, on the
\* same report object or on one that report() built anew, returns the very
\* string the earlier one returned.
C19_Repeatable ==
    /\ [](report_of # NoReport => ~CloseRaises(report_lines))
    /\ [][(nstr' = nstr + 1 /\ text # <<>>) => text' = text]_vars
    /\ [][(report_of # NoReport /\ report_of' = report_of /\ nstr' = 0
              /\ nstr >= 1) =>
             close_borders(report_lines', V_CH) = report_lines]_vars

\* C19 witness: str() was applied twice to the report object of a chain of
\* two errors.
C19_Witness ==
    /\ nstr = 2 /\ text # <<>>
    /\ ReportedLen = 2
    /\ text = JoinLines(report_lines)

-----------------------------------------------------------------------------
(* cli.py, core.py: main_factory.                                          *)

\* What run(args) does: return a status, or raise.
Statuses == 0..3
ExceptionClasses == {"ValueError", "BugyiError", "OSError"}
BaseOnlyClasses == {"SystemExit", "GeneratorExit"}
RunBehaviours ==
    {[kind |-> "return", status |-> st, exc |-> "none"] : st \in Statuses}
        \cup {[kind |-> "raise", status |-> 0, exc |-> x] :
                 x \in ExceptionClasses \cup BaseOnlyClasses
                           \cup {"KeyboardInterrupt"}}

\* isinstance(e, Exception)
IsException(exc) == exc \in ExceptionClasses

\* main(), lines 86-97 (cli.py) and 141-153 (core.py): the try statement
TryRunSwallows(run) ==
    IF run.kind = "return"
      THEN [kind |-> "return", status |-> run.status, exc |-> "none",
            logged |-> "none"]
      ELSE [kind |-> "return", status |-> 0, exc |-> "none",
            logged |-> "info"]
TryRun(run) ==
    IF run.kind = "return"
      THEN [kind |-> "return", status |-> run.status, exc |-> "none",
            logged |-> "none"]
    ELSE IF run.exc = "KeyboardInterrupt"
      THEN [kind |-> "return", status |-> 0, exc |-> "none",
            logged |-> "info"]
    ELSE IF IsException(run.exc)
      THEN [kind |-> "return", status |-> 1, exc |-> "none",
            logged |-> "exception"]
    ELSE [kind |-> "raise", status |-> 0, exc |-> run.exc,
          logged |-> "none"]

\* main(argv): parse_cli_args either returns the arguments or leaves with
\* SystemExit, as argparse does; then logging is set up and run is called.
Main(argv, parse, verbose, run) ==
    /\ main_calls < MaxCalls
    /\ main_calls' = main_calls + 1
    /\ main_in' = [argv |-> argv, parse |-> parse, verbose |-> verbose,
                   run |-> run]
    /\ main_out' = IF parse = "exit"
                     THEN [kind |-> "raise", status |-> 0,
                           exc |-> "SystemExit", logged |-> "none"]
                     ELSE TryRun(run)
    /\ UNCHANGED notMain

InitMain == InitChain

NextMain ==
    \E argv \in {"None", "given"}, parse \in {"ok", "exit"},
       verbose \in 0..1, run \in RunBehaviours :
        Main(argv, parse, verbose, run)

\* A script that calls the main() made by main_factory.
SpecMain == InitMain /\ [][NextMain]_vars

\* C20: main() returns the status run returned; it returns 0 when run
\* raised KeyboardInterrupt and 1 when run raised an Exception; it raises
\* only what run raised, and only if that is not an Exception.
C20_MainStatus ==
    (main_calls >= 1 /\ main_in.parse = "ok") =>
        LET run == main_in.run
        IN  /\ run.kind = "return" =>
                  main_out.kind = "return" /\ main_out.status = run.status
            /\ (run.kind = "raise" /\ run.exc = "KeyboardInterrupt") =>
                  main_out.kind = "return" /\ main_out.status = 0
            /\ (run.kind = "raise" /\ run.exc \in ExceptionClasses) =>
                  main_out.kind = "return" /\ main_out.status = 1
            /\ main_out.kind = "raise" =>
                  /\ run.kind = "raise" /\ main_out.exc = run.exc
                  /\ run.exc \in BaseOnlyClasses

\* C20 witness: run raised ValueError and main() returned 1.
C20_Witness ==
    /\ main_calls >= 1 /\ main_in.parse = "ok"
    /\ main_in.run.kind = "raise" /\ main_in.run.exc = "ValueError"
    /\ main_out.kind = "return" /\ main_out.status = 1
    /\ main_out.logged = "exception"

-----------------------------------------------------------------------------
(* dates.py: parse_date and parse_daterange.  A date is its proleptic      *)
(* Gregorian ordinal, as date.toordinal() gives it.                        *)

\* dt.date.min and dt.date.max as ordinals (0001-01-01 and 9999-12-31)
DateMin == 1
DateMax == 3652059

Digits == <<"0", "1", "2", "3", "4", "5", "6", "7", "8", "9">>
IsDigit(c) == \E i \in 1..10 : Digits[i] = c
DigitVal(c) == (CHOOSE i \in 1..10 : Digits[i] = c) - 1

\* int(num) for a string of decimal digits
RECURSIVE ToInt(_)
ToInt(num) ==
    IF num = <<>> THEN 0
    ELSE ToInt(SubSeq(num, 1, Len(num) - 1)) * 10 + DigitVal(num[Len(num)])

UpperCase == <<"A", "B", "C", "D", "E", "F", "G", "H", "I", "J", "K", "L", "M",
               "N", "O", "P", "Q", "R", "S", "T", "U", "V", "W", "X", "Y", "Z">>
LowerCase == <<"a", "b", "c", "d", "e", "f", "g", "h", "i", "j", "k", "l", "m",
               "n", "o", "p", "q", "r", "s", "t", "u", "v", "w", "x", "y", "z">>

\* date.lower(), line 31
Lower(str) ==
    [i \in 1..Len(str) |->
        IF \E k \in 1..26 : UpperCase[k] = str[i]
          THEN LowerCase[CHOOSE k \in 1..26 : UpperCase[k] = str[i]]
          ELSE str[i]]

\* re.match("^(?P<num>[0-9]+)(?P<ch>d|w)$", date), line 33: `$` also matches
\* before a newline that ends the string
ReMatch(date) ==
    LET d == IF date # <<>> /\ date[Len(date)] = NL
               THEN SubSeq(date, 1, Len(date) - 1) ELSE date
    IN  [matched |-> /\ Len(d) >= 2
                     /\ d[Len(d)] \in {"d", "w"}
                     /\ \A i \in 1..(Len(d) - 1) : IsDigit(d[i]),
         num     |-> SubSeq(d, 1, Len(d) - 1),
         ch      |-> IF d = <<>> THEN "" ELSE d[Len(d)]]

\* lines 38-42
DaysNoWeeks(num, ch) == num
Days(num, ch) == IF ch = "d" THEN num ELSE 7 * num

DateReturns(d) == [kind |-> "return", date |-> d, exc |-> "none"]
DateRaises(x) == [kind |-> "raise", date |-> 0, exc |-> x]

\* date - dt.timedelta(days=days), line 44: OverflowError outside
\* date.min .. date.max
DateMinus(date, days) ==
    IF date - days < DateMin \/ date - days > DateMax
      THEN DateRaises("OverflowError")
      ELSE DateReturns(date - days)

\* the ordinal of year-month-day
IsLeap(y) == y % 4 = 0 /\ (y % 100 # 0 \/ y % 400 = 0)
DaysBeforeMonth == <<0, 31, 59, 90, 120, 151, 181, 212, 243, 273, 304, 334>>
Ordinal(y, m, d) ==
    (y - 1) * 365 + ((y - 1) \div 4) - ((y - 1) \div 100) + ((y - 1) \div 400)
        + DaysBeforeMonth[m] + (IF m > 2 /\ IsLeap(y) THEN 1 ELSE 0) + d

\* dateutil_parse(date).date(), lines 49-50, for the strings YYYY-MM-DD
DateutilParse(str) ==
    IF /\ Len(str) = 10 /\ str[5] = "-" /\ str[8] = "-"
       /\ \A i \in {1, 2, 3, 4, 6, 7, 9, 10} : IsDigit(str[i])
      THEN DateReturns(Ordinal(ToInt(SubSeq(str, 1, 4)),
                               ToInt(SubSeq(str, 6, 7)),
                               ToInt(SubSeq(str, 9, 10))))
      ELSE DateRaises("ParserError")

\* "@today" and "@t", line 46
AT_TODAY == <<"@", "t", "o", "d", "a", "y">>
AT_T == <<"@", "t">>

\* The arguments of parse_date: a string, a date or a datetime.
StrArg(str) == [type |-> "str", s |-> str, ord |-> 0, time |-> 0]
DateArg(d) == [type |-> "date", s |-> <<>>, ord |-> d, time |-> 0]
DatetimeArg(d, t) == [type |-> "datetime", s |-> <<>>, ord |-> d, time |-> t]

\* parse_date(date), lines 12-56, called on the day now
parse_date(date, now) ==
    IF date.type = "str"
      THEN LET low   == Lower(date.s)
               match == ReMatch(low)
           IN  IF match.matched
                 THEN DateMinus(now, Days(ToInt(match.num), match.ch))
               ELSE IF low \in {AT_TODAY, AT_T}
                 THEN DateReturns(now)
               ELSE DateutilParse(low)
      ELSE DateReturns(date.ord)

\* daterange.split(":"), line 70
RECURSIVE SplitColon(_)
SplitColon(str) ==
    IF \E i \in 1..Len(str) : str[i] = ":"
      THEN LET i == Min({j \in 1..Len(str) : str[j] = ":"})
           IN  <<SubSeq(str, 1, i - 1)>> \o SplitColon(From(str, i))
      ELSE <<str>>

RangeReturns(l) == [kind |-> "return", list |-> l, exc |-> "none"]
RangeRaises(x) == [kind |-> "raise", list |-> <<>>, exc |-> x]

\* lines 72-78: the loop; next_date + dt.timedelta(days=1) raises
\* OverflowError after date.max
RECURSIVE RangeLoop(_, _, _)
RangeLoop(next_date, last_date, result) ==
    IF next_date <= last_date
      THEN IF next_date + 1 > DateMax
             THEN RangeRaises("OverflowError")
             ELSE RangeLoop(next_date + 1, last_date,
                            Append(result, next_date))
      ELSE RangeReturns(result)

\* parse_daterange(daterange), lines 59-78, called on the day now
parse_daterange(daterange, now) ==
    LET parts  == SplitColon(daterange)
        parsed == [i \in 1..Len(parts) |-> parse_date(StrArg(parts[i]), now)]
        failed == {i \in 1..Len(parts) : parsed[i].kind = "raise"}
    IN  IF failed # {} THEN RangeRaises(parsed[Min(failed)].exc)
        ELSE IF Len(parts) = 1 THEN RangeReturns(<<parsed[1].date>>)
        ELSE IF Len(parts) # 2 THEN RangeRaises("ValueError")
        ELSE RangeLoop(parsed[1].date, parsed[2].date, <<>>)

\* The strings a client passes.
RelativeSpecs ==
    {<<"0", "d">>,
     <<"5", "d">>,
     <<"5", "D">>,
     <<"1", "w">>,
     <<"3", "W">>,
     <<"0", "0", "7", "d">>,
     <<"5", "d", NL>>,
     <<"7", "3", "8", "0", "6", "0", "d">>,
     <<"7", "3", "8", "0", "6", "2", "d">>,
     <<"2", "0", "0", "0", "0", "0", "w">>}
TodaySpecs == {AT_TODAY, AT_T, <<"@", "T">>, <<"@", "T", "o", "d", "a", "y">>}
IsoSpecs == {<<"2", "0", "2", "1", "-", "0", "9", "-", "3", "0">>,
             <<"9", "9", "9", "9", "-", "1", "2", "-", "3", "1">>}
DateLikes ==
    {StrArg(str) : str \in RelativeSpecs \cup TodaySpecs \cup IsoSpecs}
        \cup {DateArg(Today0 + 2), DatetimeArg(Today0 + 2, 56703)}

RangeParts ==
    {<<"3", "d">>,
     <<"0", "d">>,
     <<"1", "W">>,
     <<"@", "t">>,
     <<"2", "0", "2", "1", "-", "0", "9", "-", "3", "0">>,
     <<"9", "9", "9", "9", "-", "1", "2", "-", "3", "0">>,
     <<"9", "9", "9", "9", "-", "1", "2", "-", "3", "1">>,
     <<"7", "3", "8", "0", "6", "2", "d">>}
RangeSpecs ==
    RangeParts \cup {a \o <<":">> \o b : a \in RangeParts, b \in RangeParts}
        \cup {<<"1", "d", ":", "0", "d", ":", "0", "d">>}

\* Midnight passes.
MaxTicks == 4
Tick ==
    /\ today < Today0 + MaxTicks
    /\ today' = today + 1
    /\ UNCHANGED <<date_in, date_out, range_in, range_out, notDates>>

ParseDate(date) ==
    /\ date_in' = [type |-> date.type, s |-> date.s, ord |-> date.ord,
                   time |-> date.time, on |-> today]
    /\ date_out' = parse_date(date, today)
    /\ UNCHANGED <<today, range_in, range_out, notDates>>

\* the number of dates between the two ends of a range (0 for other ranges)
MaxSpan == 10
RangeSpan(daterange, now) ==
    LET parts  == SplitColon(daterange)
        parsed == [i \in 1..Len(parts) |-> parse_date(StrArg(parts[i]), now)]
    IN  IF Len(parts) = 2 /\ \A i \in 1..2 : parsed[i].kind = "return"
          THEN parsed[2].date - parsed[1].date
          ELSE 0

ParseDaterange(daterange) ==
    /\ RangeSpan(daterange, today) <= MaxSpan
    /\ range_in' = [s |-> daterange, on |-> today]
    /\ range_out' = parse_daterange(daterange, today)
    /\ UNCHANGED <<today, date_in, date_out, notDates>>

InitDates == InitChain

NextDates ==
    \/ Tick
    \/ \E date \in DateLikes : ParseDate(date)

\* A client that parses dates, on the day it started or on a later day.
SpecDates == InitDates /\ [][NextDates]_vars

NextDateranges ==
    \/ Tick
    \/ \E daterange \in RangeSpecs : ParseDaterange(daterange)

\* A client that parses date ranges, on the day it started or on a later day.
SpecDateranges == InitDates /\ [][NextDateranges]_vars

-----------------------------------------------------------------------------
(* Claims on parse_date and parse_daterange.                               *)

\* the last parse_date call had a string of digits followed by d or w, in
\* either case; the number and the letter
IsRelative == date_in.type = "str" /\ ReMatch(Lower(date_in.s)).matched
RelN == ToInt(ReMatch(Lower(date_in.s)).num)
RelDays == IF ReMatch(Lower(date_in.s)).ch = "w" THEN 7 * RelN ELSE RelN

IsToday ==
    date_in.type = "str" /\ Lower(date_in.s) \in {AT_TODAY, AT_T}

\* C21 (as claimed): parse_date maps "Nd" to today minus N days, "Nw" to
\* today minus 7 N days and "@today" / "@t" to today, in either case and for
\* every N; a date is returned as it is and a datetime as its date.
C21_ParseDateEveryN ==
    /\ IsRelative => date_out = DateReturns(date_in.on - RelDays)
    /\ IsToday => date_out = DateReturns(date_in.on)
    /\ date_in.type \in {"date", "datetime"} =>
          date_out = DateReturns(date_in.ord)

\* C21 (amended): parse_date maps "Nd" to today minus N days and "Nw" to
\* today minus 7 N days, in either case, for every N that leaves the result
\* on or after 0001-01-01, and raises OverflowError for a larger N; it maps
\* "@today" / "@t" to today, returns a date as it is and a datetime as its
\* date.
C21_ParseDate ==
    /\ IsRelative =>
          date_out = (IF date_in.on - RelDays >= 1
                        THEN [kind |-> "return", date |-> date_in.on - RelDays,
                              exc |-> "none"]
                        ELSE [kind |-> "raise", date |-> 0,
                              exc |-> "OverflowError"])
    /\ IsToday =>
          date_out = [kind |-> "return", date |-> date_in.on, exc |-> "none"]
    /\ date_in.type \in {"date", "datetime"} =>
          date_out = [kind |-> "return", date |-> date_in.ord, exc |-> "none"]

\* C21 witness: "3W" was parsed on the day after the process started and
\* gave the day 21 days before.
C21_Witness ==
    /\ date_in.type = "str" /\ date_in.s = <<"3", "W">>
    /\ date_in.on = Today0 + 1
    /\ date_out.kind = "return" /\ date_out.date = Today0 - 20

\* the ends of the last range, as parse_date gives them on the day of the
\* call
RangeEnd(i) ==
    parse_date(StrArg(SplitColon(range_in.s)[i]), range_in.on)

\* C22: parse_daterange("START:END") returns the dates from
\* parse_date(START) to parse_date(END), both included, each one day after
\* the one before, and the empty list when START is later than END; a
\* specifier without ":" returns the list of the one date
\* parse_date(spec).
C22_Daterange ==
    /\ (Len(SplitColon(range_in.s)) = 2
            /\ RangeEnd(1).kind = "return" /\ RangeEnd(2).kind = "return") =>
          LET first == RangeEnd(1).date
              last_ == RangeEnd(2).date
          IN  /\ range_out.kind = "return"
              /\ Len(range_out.list) =
                     (IF first > last_ THEN 0 ELSE last_ - first + 1)
              /\ \A i \in 1..Len(range_out.list) :
                     range_out.list[i] = first + i - 1
    /\ (range_in.s # <<>> /\ Len(SplitColon(range_in.s)) = 1
            /\ RangeEnd(1).kind = "return") =>
          range_out = RangeReturns(<<RangeEnd(1).date>>)

-----------------------------------------------------------------------------
(* shell.py, subprocess.py: what Process / _DoneProcess and safe_popen     *)
(* compute from a command that has ended.                                  *)

\* str.strip(): whitespace removed at both ends
IsSpace(c) == c \in {SP, NL, "\t"}
Strip(str) ==
    LET keep == {i \in 1..Len(str) : ~IsSpace(str[i])}
    IN  IF keep = {} THEN <<>>
        ELSE SubSeq(str, Min(keep), CHOOSE i \in keep : \A j \in keep : j <= i)

\* a byte that starts no UTF-8 sequence
BYTE_FF == "0xFF"

\* bytes.decode(): the text of the bytes, or UnicodeDecodeError
Decodes(bytes) == \A i \in 1..Len(bytes) : bytes[i] # BYTE_FF

\* "" if stdout is None else str(stdout.decode().strip()),
\* shell.py lines 57-58; a pipe that was not captured gives None
ProcessOut(raw) == IF raw.given THEN Strip(raw.val) ELSE <<>>

\* str(n) for an integer
RECURSIVE NatToStr(_)
NatToStr(n) ==
    IF n < 10 THEN <<Digits[n + 1]>>
    ELSE NatToStr(n \div 10) \o <<Digits[(n % 10) + 1]>>
IntToStr(n) == IF n < 0 THEN <<"-">> \o NatToStr(0 - n) ELSE NatToStr(n)

\* repr of a list of strings that hold no quote: ['a', 'b']
RECURSIVE ReprItems(_)
ReprItems(list) ==
    IF list = <<>> THEN <<>>
    ELSE <<"'">> \o list[1] \o <<"'">>
             \o (IF Len(list) > 1 THEN <<",", SP>> ELSE <<>>)
             \o ReprItems(Tail(list))
ReprList(list) == <<"[">> \o ReprItems(list) \o <<"]">>

STDOUT_HEAD == <<NL, NL, "-", "-", "-", "-", "-", " ", "S", "T", "D", "O", "U", "T", NL>>
STDERR_HEAD == <<NL, NL, "-", "-", "-", "-", "-", " ", "S", "T", "D", "E", "R", "R", NL>>
FAILED_HEAD == <<"C", "o", "m", "m", "a", "n", "d", " ", "F", "a", "i", "l", "e", "d", " ", "(", "e", "c", "=">>

\* Process.to_error, shell.py lines 64-84: the message of the BugyiError
MaybeSection(head, str) == IF str # <<>> THEN head \o str ELSE <<>>

to_error_msg(cmd_args, returncode, out, err) ==
    FAILED_HEAD \o IntToStr(returncode) \o <<")", ":", SP>> \o ReprList(cmd_args)
        \o MaybeSection(STDOUT_HEAD, out) \o MaybeSection(STDERR_HEAD, err)

ProcOk(out, err) ==
    [tag |-> "Ok", out |-> out, err |-> err, emsg |-> <<>>, exc |-> "none"]
ProcErr(emsg) ==
    [tag |-> "Err", out |-> <<>>, err |-> <<>>, emsg |-> emsg,
     exc |-> "BugyiError"]
ProcRaises(x) ==
    [tag |-> "Raise", out |-> <<>>, err |-> <<>>, emsg |-> <<>>, exc |-> x]

\* Process.__init__ lines 57-58 and safe_popen lines 101-105, once
\* communicate() has returned stdout and stderr
safe_popen_result(cmd_args, returncode, stdout, stderr) ==
    IF \/ stdout.given /\ ~Decodes(stdout.val)
       \/ stderr.given /\ ~Decodes(stderr.val)
      THEN ProcRaises("UnicodeDecodeError")
      ELSE LET out == ProcessOut(stdout)
               err == ProcessOut(stderr)
           IN  IF returncode # 0
                 THEN ProcErr(to_error_msg(cmd_args, returncode, out, err))
                 ELSE ProcOk(out, err)

-----------------------------------------------------------------------------
(* secrets.py, io.py: get_secret.                                          *)

\* ".".join([key] + list(key_parts)), line 31
RECURSIVE JoinDots(_)
JoinDots(parts) ==
    IF Len(parts) = 1 THEN parts[1]
    ELSE parts[1] \o <<".">> \o JoinDots(Tail(parts))

\* directory.rstrip("/"), line 37
RStripNot(str) == str
RECURSIVE RStripSlash(_)
RStripSlash(str) ==
    IF str # <<>> /\ str[Len(str)] = "/"
      THEN RStripSlash(SubSeq(str, 1, Len(str) - 1))
      ELSE str

PASS_SHOW == <<<<"p", "a", "s", "s">>, <<"s", "h", "o", "w">>>>
SUDO_U == <<<<"s", "u", "d", "o">>, <<"-", "u">>>>

\* lines 30-45: the command get_secret runs
full_cmd_list(key, key_parts, cmd_list, directory, user) ==
    LET key1 == IF key_parts # <<>> THEN JoinDots(<<key>> \o key_parts)
                ELSE key
        cmd  == IF ~cmd_list.given THEN PASS_SHOW ELSE cmd_list.val
        key2 == IF directory.given
                  THEN RStripSlash(directory.val) \o <<"/">> \o key1
                  ELSE key1
        sudo == IF user.given THEN SUDO_U \o <<user.val>> ELSE <<>>
    IN  sudo \o cmd \o <<key2>>

\* What a client passes, and how the command ends.
SecretKeys == {<<"d", "b">>, <<"f", "o", "o">>}
SecretKeyParts == {<<>>, <<<<"d", "e", "v">>, <<"f", "o", "o">>>>, <<<<"x">>>>}
SecretDirs ==
    {NotGiven, Given(<<"i", "n", "f", "r", "a">>), Given(<<"i", "n", "f", "r", "a", "/">>), Given(<<"a", "/", "b", "/", "/">>),
     Given(<<>>), Given(<<"/">>)}
SecretCmds == {NotGiven, Given(<<<<"e", "c", "h", "o">>>>), Given(<<>>)}
SecretUsers == {NotGiven, Given(<<"b", "o", "b">>)}
SecretStdouts == {<<" ", "s", "3", "c", "r", "e", "t", NL>>, <<"p", "w">>}

\* get_secret(key, *key_parts, cmd_list=..., directory=..., user=...): the
\* command ends with returncode and has written stdout
GetSecret(key, key_parts, cmd_list, directory, user, returncode, stdout) ==
    LET full   == full_cmd_list(key, key_parts, cmd_list, directory, user)
        result == safe_popen_result(full, returncode, Given(stdout), Given(<<>>))
    IN  /\ secret_in' = [key |-> key, key_parts |-> key_parts,
                         cmd_list |-> cmd_list, directory |-> directory,
                         user |-> user]
        /\ secret_cmd' = [args |-> full, returncode |-> returncode,
                          stdout |-> stdout]
        /\ secret_out' = IF result.tag = "Ok"
                           THEN [kind |-> "return", secret |-> result.out]
                           ELSE [kind |-> "raise", secret |-> <<>>]
        /\ UNCHANGED notSecret

InitSecret == InitChain

NextSecret ==
    \E key \in SecretKeys, key_parts \in SecretKeyParts,
       cmd_list \in SecretCmds, directory \in SecretDirs,
       user \in SecretUsers, returncode \in {0, 1},
       stdout \in SecretStdouts :
        GetSecret(key, key_parts, cmd_list, directory, user, returncode, stdout)

\* A client that fetches secrets.
SpecSecret == InitSecret /\ [][NextSecret]_vars

\* the directory with its trailing slashes removed: the prefix that does not
\* end with a slash and is followed by slashes only
Unslashed(dir) ==
    SubSeq(dir, 1,
           CHOOSE k \in 0..Len(dir) :
               /\ k > 0 => dir[k] # "/"
               /\ \A i \in (k + 1)..Len(dir) : dir[i] = "/")

\* C23: get_secret runs [sudo, -u, user] (when user is given) + cmd_list
\* (["pass", "show"] when not given) + [full_key], where full_key is key and
\* the key_parts joined with ".", after the directory without its trailing
\* slashes and one "/" when a directory is given, and returns the stripped
\* standard output of the command when the command succeeds.
C23_GetSecret ==
    secret_out.kind # "none" =>
        LET in   == secret_in
            dots == JoinDots(<<in.key>> \o in.key_parts)
            full == IF in.directory.given
                      THEN Unslashed(in.directory.val) \o <<"/">> \o dots
                      ELSE dots
            n    == Len(secret_cmd.args)
            cmd  == IF in.cmd_list.given THEN in.cmd_list.val
                    ELSE <<<<"p", "a", "s", "s">>, <<"s", "h", "o", "w">>>>
            k    == IF in.user.given THEN 3 ELSE 0
        IN  /\ n = k + Len(cmd) + 1
            /\ secret_cmd.args[n] = full
            /\ SubSeq(secret_cmd.args, k + 1, n - 1) = cmd
            /\ in.user.given =>
                  SubSeq(secret_cmd.args, 1, 3)
                      = <<<<"s", "u", "d", "o">>, <<"-", "u">>, in.user.val>>
            /\ secret_cmd.returncode = 0 =>
                  /\ secret_out.kind = "return"
                  /\ secret_out.secret # <<>>
                  /\ ~IsSpace(secret_out.secret[1])
                  /\ ~IsSpace(secret_out.secret[Len(secret_out.secret)])
                  /\ \E a \in 0..Len(secret_cmd.stdout) :
                        /\ SubSeq(secret_cmd.stdout, a + 1,
                                  a + Len(secret_out.secret))
                               = secret_out.secret
                        /\ \A i \in (1..a) \cup
                               ((a + Len(secret_out.secret) + 1)
                                    ..Len(secret_cmd.stdout)) :
                              IsSpace(secret_cmd.stdout[i])

\* C23 witness: key "db" with the parts "dev" and "foo" in the directory
\* "infra/" was fetched as user bob with the default command; the command
\* ended with "infra/db.dev.foo" as its last argument.
C23_Witness ==
    /\ secret_in.key = <<"d", "b">> /\ secret_in.key_parts = <<<<"d", "e", "v">>, <<"f", "o", "o">>>>
    /\ secret_in.directory = Given(<<"i", "n", "f", "r", "a", "/">>)
    /\ secret_in.user.given /\ ~secret_in.cmd_list.given
    /\ secret_cmd.args[Len(secret_cmd.args)] = <<"i", "n", "f", "r", "a", "/", "d", "b", ".", "d", "e", "v", ".", "f", "o", "o">>
    /\ Len(secret_cmd.args) = 6
    /\ secret_out.kind = "return"

-----------------------------------------------------------------------------
(* xdg.py: the XDG base directories and the directory of a script.         *)

\* str.split("/")
RECURSIVE SplitSlash(_)
SplitSlash(str) ==
    IF \E i \in 1..Len(str) : str[i] = "/"
      THEN LET i == Min({j \in 1..Len(str) : str[j] = "/"})
           IN  <<SubSeq(str, 1, i - 1)>> \o SplitSlash(From(str, i))
      ELSE <<str>>

IsPart(p) == p # <<>> /\ p # <<".">>

\* pathlib.Path(str): the parts of the path; empty parts and "." are dropped
PathOf(str) ==
    [abs |-> str # <<>> /\ str[1] = "/",
     parts |-> SelectSeq(SplitSlash(str), IsPart)]

\* path / name for a relative name
PathJoin(path, name) ==
    [abs |-> path.abs, parts |-> path.parts \o PathOf(name).parts]

\* path.parent
PathParent(path) ==
    IF path.parts = <<>> THEN path
    ELSE [abs |-> path.abs,
          parts |-> SubSeq(path.parts, 1, Len(path.parts) - 1)]

\* path.exists() after the mkdir(parents=True) calls that made ds
PathExists(path, ds) ==
    \E d \in ds :
        /\ d.abs = path.abs
        /\ Len(path.parts) <= Len(d.parts)
        /\ SubSeq(d.parts, 1, Len(path.parts)) = path.parts

\* f"{_HOME}": str(None) is "None"
FStr(v) == IF v.given THEN v.val ELSE <<"N", "o", "n", "e">>

XdgTypes == {"cache", "config", "data", "runtime"}

\* _XDG_TYPE_MAP, lines 16-21, made when the module is imported
XDG_TYPE_MAP(home) ==
    [t \in XdgTypes |->
        CASE t = "cache"   -> [envvar |-> "XDG_CACHE_HOME",
                               default_dir |-> FStr(home) \o <<"/", ".", "c", "a", "c", "h", "e">>]
          [] t = "config"  -> [envvar |-> "XDG_CONFIG_HOME",
                               default_dir |-> FStr(home) \o <<"/", ".", "c", "o", "n", "f", "i", "g">>]
          [] t = "data"    -> [envvar |-> "XDG_DATA_HOME",
                               default_dir |-> FStr(home) \o <<"/", ".", "l", "o", "c", "a", "l", "/", "s", "h", "a", "r", "e">>]
          [] t = "runtime" -> [envvar |-> "XDG_RUNTIME_DIR",
                               default_dir |-> <<"/", "t", "m", "p">>]]

\* os.environ.get(envvar, default_dir), line 59
EnvGet(env, envvar, default_dir) ==
    IF env[envvar].given THEN env[envvar].val ELSE default_dir

XdgReturns(path) == [kind |-> "return", path |-> path, exc |-> "none"]
XdgRaises(x) == [kind |-> "raise", path |-> NoPath, exc |-> x]

\* get_base_dir, lines 47-60
get_base_dir(xdg_type, env, home) ==
    IF xdg_type \notin XdgTypes THEN XdgRaises("AssertionError")
    ELSE LET entry == XDG_TYPE_MAP(home)[xdg_type]
         IN  XdgReturns(PathOf(EnvGet(env, entry.envvar, entry.default_dir)))

\* get_full_dir, lines 37-44; script is what scriptname() gives for the caller
get_full_dir(xdg_type, script, env, home) ==
    LET base == get_base_dir(xdg_type, env, home)
    IN  IF base.kind = "raise" THEN base
        ELSE XdgReturns(PathJoin(base.path, script))

\* What the environment holds and what a client passes.
HomeValues == {<<"/", "h">>, <<"/", "r">>}
XdgValues == {<<"/", "c", "/">>}
EnvValues(v) == IF v = "HOME" THEN HomeValues ELSE XdgValues
XdgArgs == XdgTypes \cup {"state"}
Scripts == {<<"a", "p", "p">>}
MaxDirs == 1

\* os.environ[v] = val, by the process or before it starts
SetEnv(v, val) ==
    /\ environ[v] # Given(val)
    /\ environ' = [environ EXCEPT ![v] = Given(val)]
    /\ UNCHANGED <<xdg_HOME, dirs, xdg_in, xdg_out>>
    /\ UNCHANGED notXdg

\* del os.environ[v]
DelEnv(v) ==
    /\ environ[v].given
    /\ environ' = [environ EXCEPT ![v] = NotGiven]
    /\ UNCHANGED <<xdg_HOME, dirs, xdg_in, xdg_out>>
    /\ UNCHANGED notXdg

\* import bugyi.lib.xdg: line 14 reads HOME
Import ==
    /\ ~xdg_HOME.imported
    /\ xdg_HOME' = [imported |-> TRUE, given |-> environ["HOME"].given,
                    val |-> environ["HOME"].val]
    /\ UNCHANGED <<environ, dirs, xdg_in, xdg_out>>
    /\ UNCHANGED notXdg

\* get_base_dir(xdg_type)
GetBaseDir(xdg_type) ==
    /\ xdg_HOME.imported
    /\ xdg_in' = [fn |-> "get_base_dir", xdg_type |-> xdg_type, script |-> <<>>]
    /\ xdg_out' = get_base_dir(xdg_type, environ, xdg_HOME)
    /\ UNCHANGED <<environ, xdg_HOME, dirs>>
    /\ UNCHANGED notXdg

\* init_full_dir(xdg_type), lines 24-34, called from the script
InitFullDir(xdg_type, script) ==
    LET full == get_full_dir(xdg_type, script, environ, xdg_HOME)
    IN  /\ xdg_HOME.imported
        /\ full.kind = "return" => Cardinality(dirs \cup {full.path}) <= MaxDirs
        /\ xdg_in' = [fn |-> "init_full_dir", xdg_type |-> xdg_type,
                      script |-> script]
        /\ xdg_out' = full
        /\ dirs' = IF full.kind = "return" THEN dirs \cup {full.path} ELSE dirs
        /\ UNCHANGED <<environ, xdg_HOME>>
        /\ UNCHANGED notXdg

\* os.rmdir(full_dir), as the tests do
Rmdir(d) ==
    /\ d \in dirs
    /\ dirs' = dirs \ {d}
    /\ UNCHANGED <<environ, xdg_HOME, xdg_in, xdg_out>>
    /\ UNCHANGED notXdg

InitXdg == InitChain

NextXdg ==
    \/ \E v \in EnvVars : \E val \in EnvValues(v) : SetEnv(v, val)
    \/ \E v \in EnvVars : DelEnv(v)
    \/ Import
    \/ \E t \in XdgArgs : GetBaseDir(t)
    \/ \E t \in XdgArgs, script \in Scripts : InitFullDir(t, script)
    \/ \E d \in dirs : Rmdir(d)

\* A process that changes its environment and asks for XDG directories.
SpecXdg == InitXdg /\ [][NextXdg]_vars

\* the variable and the default the claim names for a type
ClaimedVar(t) ==
    CASE t = "cache" -> "XDG_CACHE_HOME" [] t = "config" -> "XDG_CONFIG_HOME"
      [] t = "data" -> "XDG_DATA_HOME" [] OTHER -> "XDG_RUNTIME_DIR"
ClaimedDefault(t, home) ==
    CASE t = "cache" -> home \o <<"/", ".", "c", "a", "c", "h", "e">> [] t = "config" -> home \o <<"/", ".", "c", "o", "n", "f", "i", "g">>
      [] t = "data" -> home \o <<"/", ".", "l", "o", "c", "a", "l", "/", "s", "h", "a", "r", "e">> [] OTHER -> <<"/", "t", "m", "p">>

\* what the claim says of the last call, in the environment of the call
XdgAsClaimed ==
    LET t == xdg_in.xdg_type
    IN  /\ t \notin XdgTypes => xdg_out = XdgRaises("AssertionError")
        /\ (/\ t \in XdgTypes
            /\ \/ environ[ClaimedVar(t)].given
               \/ environ["HOME"].given
               \/ t = "runtime") =>
              LET base == IF environ[ClaimedVar(t)].given
                            THEN PathOf(environ[ClaimedVar(t)].val)
                            ELSE PathOf(ClaimedDefault(t, environ["HOME"].val))
              IN  /\ xdg_out.kind = "return"
                  /\ xdg_in.fn = "get_base_dir" => xdg_out.path = base
                  /\ xdg_in.fn = "init_full_dir" =>
                        /\ PathParent(xdg_out.path) = base
                        /\ PathExists(xdg_out.path, dirs)

\* C24: get_base_dir(t) returns the value of XDG_CACHE_HOME, XDG_CONFIG_HOME,
\* XDG_DATA_HOME or XDG_RUNTIME_DIR when that variable is set at the time of
\* the call, and otherwise $HOME/.cache, $HOME/.config, $HOME/.local/share
\* or /tmp; another t fails an assertion; init_full_dir(t) returns a
\* directory whose parent is get_base_dir(t) and which exists on return.
C24_BaseDirs ==
    [][(xdg_in' # xdg_in \/ xdg_out' # xdg_out) => XdgAsClaimed']_vars

-----------------------------------------------------------------------------
(* shell.py, subprocess.py: safe_popen step by step, with the child        *)
(* process and the descendants that inherit its pipes.                     *)

SIGKILLED == 0 - 9

\* What a client passes and what the command does.
PopenModules == {"shell", "subprocess"}
PopenCmds == {<<<<"j", "o", "b">>>>}
ExitCodes == {0, 3}
Stdouts == {NotGiven, Given(<<>>), Given(<<" ", "h", "i", NL>>), Given(<<BYTE_FF>>)}
Stderrs == {Given(<<>>), Given(<<"o", "o", "p", "s", NL>>), Given(<<NL>>)}

\* safe_popen(cmd): Popen(cmd_list, **kwargs) starts the child, shell.py
\* lines 127-131, subprocess.py lines 24-29; then communicate is entered.
\* The child is to write stdout and stderr and to end with exit code ec;
\* spawns tells whether it leaves a descendant that holds its pipes.
SafePopen(module, cmd, stdout, stderr, ec, spawns) ==
    /\ proc_pc \in {"idle", "done"}
    /\ proc_in' = [module |-> module, cmd |-> cmd, stdout |-> stdout,
                   stderr |-> stderr, ec |-> ec]
    /\ proc_pc' = "communicate"
    /\ proc_child' = "running"
    /\ proc_rc' = 0
    /\ proc_holders' = spawns
    /\ proc_timedout' = FALSE
    /\ proc_out' = NoProcOut
    /\ UNCHANGED notProc

\* the child ends by itself
ChildExit ==
    /\ proc_child = "running"
    /\ proc_child' = "exited"
    /\ proc_rc' = proc_in.ec
    /\ UNCHANGED <<proc_in, proc_pc, proc_holders, proc_timedout, proc_out>>
    /\ UNCHANGED notProc

\* the descendant closes the pipes
HolderExit ==
    /\ proc_holders
    /\ proc_holders' = FALSE
    /\ UNCHANGED <<proc_in, proc_pc, proc_child, proc_rc, proc_timedout,
                   proc_out>>
    /\ UNCHANGED notProc

\* the pipes are at their end and the child has been waited for
Finish ==
    /\ proc_pc' = "done"
    /\ proc_out' = safe_popen_result(proc_in.cmd, proc_rc, proc_in.stdout,
                                     proc_in.stderr)
    /\ UNCHANGED <<proc_in, proc_child, proc_rc, proc_holders, proc_timedout>>
    /\ UNCHANGED notProc

\* popen.communicate(timeout=timeout) returns, shell.py line 47;
\* ps.communicate() returns, subprocess.py line 63
Communicate ==
    /\ proc_pc = "communicate"
    /\ proc_child # "running" /\ ~proc_holders
    /\ Finish

\* popen.communicate(timeout=timeout) raises TimeoutExpired, lines 47-53
TimeoutExpired ==
    /\ proc_pc = "communicate"
    /\ proc_in.module = "shell"
    /\ proc_child = "running" \/ proc_holders
    /\ proc_pc' = "timedout"
    /\ proc_timedout' = TRUE
    /\ UNCHANGED <<proc_in, proc_child, proc_rc, proc_holders, proc_out>>
    /\ UNCHANGED notProc

\* popen.kill(), line 54: nothing is sent to a child that has ended
Kill ==
    /\ proc_pc = "timedout"
    /\ proc_pc' = "collect"
    /\ IF proc_child = "running"
         THEN proc_child' = "killed" /\ proc_rc' = SIGKILLED
         ELSE UNCHANGED <<proc_child, proc_rc>>
    /\ UNCHANGED <<proc_in, proc_holders, proc_timedout, proc_out>>
    /\ UNCHANGED notProc

\* popen.communicate() returns, line 55
Collect ==
    /\ proc_pc = "collect"
    /\ ~proc_holders
    /\ Finish

InitPopen == InitChain

NextPopen ==
    \/ \E module \in PopenModules, cmd \in PopenCmds, stdout \in Stdouts,
          stderr \in Stderrs, ec \in ExitCodes, spawns \in BOOLEAN :
           SafePopen(module, cmd, stdout, stderr, ec, spawns)
    \/ ChildExit
    \/ HolderExit
    \/ Communicate
    \/ TimeoutExpired
    \/ Kill
    \/ Collect

\* A client that runs commands.
SpecPopen == InitPopen /\ [][NextPopen]_vars

\* The steps of safe_popen itself are taken when they can be; nothing makes
\* the child or its descendants end.
SpecPopenLive ==
    /\ SpecPopen
    /\ WF_vars(Communicate) /\ WF_vars(Kill) /\ WF_vars(Collect)

\* sub occurs in str
Contains(str, sub) ==
    \E i \in 0..(Len(str) - Len(sub)) : SubSeq(str, i + 1, i + Len(sub)) = sub

\* C25: safe_popen returns Ok if and only if the exit code of the finished
\* command is 0; otherwise it returns an Err with a BugyiError whose message
\* holds the exit code and the command, then a STDOUT section only when the
\* captured stdout is not empty and a STDERR section only when the captured
\* stderr is not empty; it never raises for an exit code that is not 0.
C25_OkIffZero ==
    proc_pc = "done" =>
        /\ proc_out.tag = "Ok" <=> proc_rc = 0
        /\ proc_rc # 0 =>
              /\ proc_out.tag = "Err"
              /\ Contains(proc_out.emsg, IntToStr(proc_rc))
              /\ Contains(proc_out.emsg, ReprList(proc_in.cmd))
              /\ Contains(proc_out.emsg, <<"-", "-", "-", "-", "-", " ", "S", "T", "D", "O", "U", "T">>) =>
                    proc_in.stdout.given /\ proc_in.stdout.val # <<>>
              /\ Contains(proc_out.emsg, <<"-", "-", "-", "-", "-", " ", "S", "T", "D", "E", "R", "R">>) =>
                    proc_in.stderr.given /\ proc_in.stderr.val # <<>>

\* C30: when the command does not finish within the timeout of
\* shell.safe_popen, the child is killed before the rest of its output is
\* collected, the construction of the Process always completes, and
\* safe_popen returns an Err, never an Ok.
C30_TimeoutGivesErr ==
    /\ [](proc_pc = "collect" => proc_child # "running")
    /\ [](proc_pc = "done" /\ proc_timedout => proc_out.tag # "Ok")
    /\ (proc_timedout ~> proc_pc = "done")

-----------------------------------------------------------------------------
(* shell.py, subprocess.py: create_pidfile, step by step for each instance *)
(* of the script.                                                          *)

PidfileOf(str) == [exists |-> TRUE, text |-> str]

\* int(text) raises ValueError for a text that is no number
IsInt(str) == str # <<>> /\ \A i \in 1..Len(str) : IsDigit(str[i])

\* os.kill(old_pid, 0), line 146: "ok" when the signal could be sent,
\* ProcessLookupError when no such process runs, PermissionError when the
\* process belongs to another user
KillProbe(old_pid, alive) ==
    IF old_pid \notin alive THEN "ProcessLookupError"
    ELSE IF old_pid = ForeignPid THEN "PermissionError"
    ELSE "ok"

\* PermissionError and ProcessLookupError are subclasses of OSError
IsOSError(x) == x \in {"ProcessLookupError", "PermissionError"}

PidFinal == {"returned", "raised"}
PidQuiet == \A p \in Instances : pid_pc[p] \in PidFinal \cup {"idle"}

\* an instance of the script starts and calls create_pidfile, line 136
PidStart(p) ==
    /\ pid_pc[p] = "idle" /\ p \notin pid_alive
    /\ pid_alive' = pid_alive \cup {p}
    /\ pid_pc' = [pid_pc EXCEPT ![p] = "isfile"]
    /\ pid_before' = [pid_before EXCEPT ![p] = pidfile]
    /\ UNCHANGED <<pidfile, pid_old, pid_res>>
    /\ UNCHANGED notPid

\* if os.path.isfile(PIDFILE), line 143
PidIsFile(p) ==
    /\ pid_pc[p] = "isfile"
    /\ pid_pc' = [pid_pc EXCEPT ![p] = IF pidfile.exists THEN "read" ELSE "open"]
    /\ UNCHANGED <<pidfile, pid_alive, pid_old, pid_before, pid_res>>
    /\ UNCHANGED notPid

\* old_pid = int(open(PIDFILE, "r").read()), line 144, outside the try
PidRead(p) ==
    /\ pid_pc[p] = "read"
    /\ IF IsInt(pidfile.text)
         THEN /\ pid_old' = [pid_old EXCEPT ![p] = ToInt(pidfile.text)]
              /\ pid_pc' = [pid_pc EXCEPT ![p] = "kill"]
              /\ UNCHANGED pid_res
         ELSE /\ pid_res' = [pid_res EXCEPT
                                ![p] = [kind |-> "ValueError", pid |-> 0]]
              /\ pid_pc' = [pid_pc EXCEPT ![p] = "raised"]
              /\ UNCHANGED pid_old
    /\ UNCHANGED <<pidfile, pid_alive, pid_before>>
    /\ UNCHANGED notPid

\* lines 145-153: try os.kill / except OSError: pass / else: raise
PidKill(p) ==
    /\ pid_pc[p] = "kill"
    /\ IF IsOSError(KillProbe(pid_old[p], pid_alive))
         THEN /\ pid_pc' = [pid_pc EXCEPT ![p] = "open"]
              /\ UNCHANGED pid_res
         ELSE /\ pid_res' = [pid_res EXCEPT
                                ![p] = [kind |-> "StillAliveException",
                                        pid |-> pid_old[p]]]
              /\ pid_pc' = [pid_pc EXCEPT ![p] = "raised"]
    /\ UNCHANGED <<pidfile, pid_alive, pid_old, pid_before>>
    /\ UNCHANGED notPid

\* open(PIDFILE, "w"), line 156: the file is made or emptied
PidOpen(p) ==
    /\ pid_pc[p] = "open"
    /\ pidfile' = PidfileOf(<<>>)
    /\ pid_pc' = [pid_pc EXCEPT ![p] = "write"]
    /\ UNCHANGED <<pid_alive, pid_old, pid_before, pid_res>>
    /\ UNCHANGED notPid

\* .write(str(pid)), lines 155-156, and the return
PidWrite(p) ==
    /\ pid_pc[p] = "write"
    /\ pidfile' = PidfileOf(IntToStr(p))
    /\ pid_pc' = [pid_pc EXCEPT ![p] = "returned"]
    /\ pid_res' = [pid_res EXCEPT ![p] = [kind |-> "return", pid |-> 0]]
    /\ UNCHANGED <<pid_alive, pid_old, pid_before>>
    /\ UNCHANGED notPid

\* the instance ends
PidExit(p) ==
    /\ pid_pc[p] \in PidFinal
    /\ pid_alive' = pid_alive \ {p}
    /\ pid_pc' = [pid_pc EXCEPT ![p] = "idle"]
    /\ pid_res' = [pid_res EXCEPT ![p] = NoPidRes]
    /\ UNCHANGED <<pidfile, pid_old, pid_before>>
    /\ UNCHANGED notPid

\* the pidfile names the process of the other user (its PID was written by
\* an instance that user ran, or was given to that process after the
\* instance that wrote it ended)
PidForeign ==
    /\ PidQuiet
    /\ ForeignPid \in pid_alive
    /\ pidfile # PidfileOf(IntToStr(ForeignPid))
    /\ pidfile' = PidfileOf(IntToStr(ForeignPid))
    /\ UNCHANGED <<pid_alive, pid_pc, pid_old, pid_before, pid_res>>
    /\ UNCHANGED notPid

\* the process of the other user ends
PidForeignExit ==
    /\ PidQuiet
    /\ ForeignPid \in pid_alive
    /\ pid_alive' = pid_alive \ {ForeignPid}
    /\ UNCHANGED <<pidfile, pid_pc, pid_old, pid_before, pid_res>>
    /\ UNCHANGED notPid

PidSteps(p) ==
    \/ PidIsFile(p)
    \/ PidRead(p)
    \/ PidKill(p)
    \/ PidOpen(p)
    \/ PidWrite(p)

InitPidfile == InitChain

\* One instance at a time is in create_pidfile.
NextPidfile ==
    \/ \E p \in Instances : PidQuiet /\ PidStart(p)
    \/ \E p \in Instances : PidSteps(p)
    \/ \E p \in Instances : PidQuiet /\ PidExit(p)
    \/ PidForeign
    \/ PidForeignExit

SpecPidfile == InitPidfile /\ [][NextPidfile]_vars

\* The instances start, run and end in any order.
NextPidfileConc ==
    \/ \E p \in Instances : PidStart(p)
    \/ \E p \in Instances : PidSteps(p)
    \/ \E p \in Instances : PidExit(p)

SpecPidfileConc == InitPidfile /\ [][NextPidfileConc]_vars

\* C26: create_pidfile raises StillAliveException with the old PID and leaves
\* the pidfile as it is whenever the pidfile exists and names a process that
\* is alive; when there is no pidfile or it names a process that no longer
\* exists, it writes the PID of the caller to the pidfile and returns.
C26_StillAlive ==
    [][\A p \in Instances :
          (pid_pc[p] \notin PidFinal /\ pid_pc'[p] \in PidFinal) =>
              /\ \A q \in pid_alive :
                    pid_before[p] = PidfileOf(IntToStr(q)) =>
                        /\ pid_res'[p] = [kind |-> "StillAliveException",
                                          pid |-> q]
                        /\ pidfile' = pid_before[p]
              /\ (\/ ~pid_before[p].exists
                  \/ \E q \in (Instances \cup {ForeignPid}) \ pid_alive :
                        pid_before[p] = PidfileOf(IntToStr(q))) =>
                    /\ pid_res'[p].kind = "return"
                    /\ pidfile' = PidfileOf(IntToStr(p))]_vars

\* C29: under every interleaving of the steps of two instances, at most one
\* of two live instances has returned from create_pidfile without
\* StillAliveException, and once both are through the pidfile holds the PID
\* of the one that returned.
C29_MutualExclusion ==
    LET returned == {p \in Instances : pid_pc[p] = "returned"}
    IN  /\ Cardinality(returned) <= 1
        /\ \A p \in returned :
              (\A q \in Instances : pid_pc[q] \in PidFinal) =>
                  pidfile = PidfileOf(IntToStr(p))

-----------------------------------------------------------------------------
(* meta.py: Inspector and _path_to_module.                                 *)

\* an entry of sys.path: a str or a pathlib.Path
StrEntry(str) == [type |-> "str", s |-> str]
PathEntry(str) == [type |-> "Path", s |-> str]

\* os.path.realpath of an absolute path without links: the path normalised
RealPath(str) ==
    LET parts == PathOf(str).parts
    IN  IF parts = <<>> THEN <<"/">> ELSE <<"/">> \o Join(parts, <<"/">>)

\* str.endswith(suffix)
EndsWith(str, suffix) ==
    /\ Len(suffix) <= Len(str)
    /\ SubSeq(str, Len(str) - Len(suffix) + 1, Len(str)) = suffix

\* str.replace(old, new) for a non-empty old
RECURSIVE Replace(_, _, _)
Replace(str, old, new) ==
    IF Len(str) < Len(old) THEN str
    ELSE IF SubSeq(str, 1, Len(old)) = old
      THEN new \o Replace(From(str, Len(old)), old, new)
      ELSE <<str[1]>> \o Replace(Tail(str), old, new)

\* sorted(sys.path, key=lambda x: -len(x)), line 47: a stable sort, longest
\* first; entry i goes to the place after the longer entries and the
\* entries as long that come before it
SortedPypaths(entries) ==
    LET n == Len(entries)
        place(i) == 1 + Cardinality({j \in 1..n :
                        \/ Len(entries[j].s) > Len(entries[i].s)
                        \/ Len(entries[j].s) = Len(entries[i].s) /\ j < i})
    IN  [k \in 1..n |-> entries[CHOOSE i \in 1..n : place(i) = k]]

\* lines 48-50: the loop over the sorted entries
RECURSIVE StripPypaths(_, _)
StripPypaths(P, pypaths) ==
    IF pypaths = <<>> THEN P
    ELSE StripPypaths(Replace(P, RealPath(pypaths[1].s) \o <<"/">>, <<>>),
                      Tail(pypaths))

InspReturns(name) == [kind |-> "return", module_name |-> name, exc |-> "none"]
InspRaises(x) == [kind |-> "raise", module_name |-> <<>>, exc |-> x]

\* len(x) raises TypeError for a path object
HasLen(entry) == entry.type = "str"

\* _path_to_module, lines 35-53, for the path of an existing file
path_to_module(path, entries) ==
    LET P1 == IF EndsWith(path, <<".", "p", "y">>) \/ EndsWith(path, <<".", "p", "x">>)
                THEN SubSeq(path, 1, Len(path) - 3) ELSE path
    IN  IF \E i \in 1..Len(entries) : ~HasLen(entries[i])
          THEN InspRaises("TypeError")
          ELSE InspReturns(Replace(StripPypaths(P1, SortedPypaths(entries)),
                                   <<"/">>, <<".">>))

\* What sys.path holds and where the calling code is.
PathEntries ==
    {StrEntry(<<"/", "a">>), StrEntry(<<"/", "a", "/", "l">>), StrEntry(<<"/", "a", "/">>),
     PathEntry(<<"/", "a">>), PathEntry(<<"/", "a", "/", "l">>)}
MaxPath == 2
SysPaths == UNION {[1..n -> PathEntries] : n \in 0..MaxPath}
FrameFiles == {<<"/", "a", "/", "l", "/", "m", ".", "p", "y">>, <<"/", "a", "/", "p", "/", "m", ".", "p", "y">>, <<"/", "x", "/", "t", ".", "p", "x">>}

\* sys.path = entries, by the program
SetSysPath(entries) ==
    /\ sys_path' = entries
    /\ UNCHANGED <<insp_in, insp_out>>
    /\ UNCHANGED notMeta

\* Inspector(), lines 25-32, called from code in file
NewInspector(file) ==
    /\ insp_in' = file
    /\ insp_out' = path_to_module(file, sys_path)
    /\ UNCHANGED sys_path
    /\ UNCHANGED notMeta

InitMeta == InitChain

NextMeta ==
    \/ \E entries \in SysPaths : SetSysPath(entries)
    \/ \E file \in FrameFiles : NewInspector(file)

SpecMeta == InitMeta /\ [][NextMeta]_vars

\* C27: constructing an Inspector succeeds and sets module_name, also when
\* the entries of sys.path are path objects and not strings.
C27_PathObjects ==
    [][insp_out' # insp_out =>
          /\ insp_out'.kind = "return"
          /\ insp_out'.module_name # <<>>]_vars

-----------------------------------------------------------------------------
\* C28: if the producer of a LazyResult raises, the exception reaches the
\* caller of the accessor, the memo slot stays empty and the next accessor
\* call invokes the producer again; the memo slot is written only when the
\* producer returns, and then with what it returned.
C28_RaiseNotMemoised ==
    /\ [](func.kind = "Raise" =>
            /\ lazy_result = None
            /\ func_calls = Len(log)
            /\ \A i \in 1..Len(log) :
                  log[i].out = Raises(FuncPayload(func, args, i)))
    /\ [][lazy_result' # lazy_result =>
            /\ func.kind # "Raise"
            /\ func_calls' = func_calls + 1
            /\ lazy_result' = FuncResult(func, args, func_calls')]_vars

\* C28 witness: three accessor calls on a LazyResult whose producer raises;
\* the producer ran three times, the third exception reached the caller and
\* the memo slot is empty.
C28_Witness ==
    /\ func.kind = "Raise" /\ ~func.pure
    /\ Len(log) = 3 /\ func_calls = 3
    /\ log[3].out = Raises(args + 3)
    /\ lazy_result = None

=============================================================================
